---- MODULE Spec2Model ----
(***************************************************************************)
(* Robots vs. monsters on a closed cubic lattice: the world model          *)
(* (environment.py), the rule engine (rule_engine.py), the robot agent     *)
(* (robot.py), the monster agent (monster.py) and the step drivers of      *)
(* realtime_3d_colab.py (simulation_loop, execute_single_step and the      *)
(* dashboard buttons that start them).                                     *)
(*                                                                         *)
(* Positions and orientations are triples <<x, y, z>>.  A Python dict      *)
(* whose keys are agent ids is a function over all ids whose value NoPos   *)
(* stands for "key absent"; the dicts are filled in ascending id order     *)
(* and never re-inserted, so "first entry in dict order" is "smallest id". *)
(* An action string (JSON) is the record of its parsed fields.             *)
(***************************************************************************)
EXTENDS Integers, Sequences, FiniteSets, TLC

\* ---------------------------------------------------------------- bounds
\* config.py values, scaled down for model checking
WORLD_SIZE == 4
NUM_ROBOTS == 3
NUM_MONSTERS == 2
SIMULATION_STEPS == 3
MONSTER_FREQUENCY == 2
ROBOT_MEMORY_LIMIT == 2
\* random.random() and MONSTER_PROBABILITY are multiples of 1/ProbScale
ProbScale == 4

N == WORLD_SIZE
RobotIds == 1..NUM_ROBOTS
MonsterIds == 1..NUM_MONSTERS

\* ------------------------------------------------------------- geometry
Coords == 0..(N - 1)
Cells == Coords \X Coords \X Coords
NoPos == <<>>

Add(p, o) == <<p[1] + o[1], p[2] + o[2], p[3] + o[3]>>

InBounds(p) == p[1] \in Coords /\ p[2] \in Coords /\ p[3] \in Coords

IsBoundary(p) ==
    \/ p[1] = 0 \/ p[1] = N - 1
    \/ p[2] = 0 \/ p[2] = N - 1
    \/ p[3] = 0 \/ p[3] = N - 1

Interior == {c \in Cells : ~IsBoundary(c)}

Orientations ==
    {<<1, 0, 0>>, <<-1, 0, 0>>, <<0, 1, 0>>, <<0, -1, 0>>, <<0, 0, 1>>, <<0, 0, -1>>}

\* ---------------------------------------------------------- environment
\* world[c] = 0 is a free cell, -1 an empty one
\* as _create_boundaries, leaving the face z = N - 1 as generated
_create_boundaries_open_top(w) ==
    [c \in Cells |-> IF IsBoundary(c) /\ c[3] # N - 1 THEN -1 ELSE w[c]]

_create_boundaries(w) == [c \in Cells |-> IF IsBoundary(c) THEN -1 ELSE w[c]]

\* as _generate_world, without the final call of _create_boundaries
_generate_world_unbounded(internal_empty) ==
    [c \in Cells |-> IF c \in internal_empty THEN -1 ELSE 0]

_generate_world(internal_empty) ==
    _create_boundaries([c \in Cells |-> IF c \in internal_empty THEN -1 ELSE 0])

is_valid_position(w, p) == InBounds(p) /\ w[p] = 0

get_internal_free_positions(w) == {c \in Interior : w[c] = 0}

is_monster_at(mpos, p) == InBounds(p) /\ \E m \in DOMAIN mpos : mpos[m] = p

is_robot_at(rpos, p, exclude_id) ==
    InBounds(p) /\ \E r \in DOMAIN rpos : rpos[r] = p /\ r # exclude_id

\* as remove_monster_at, without the break: every entry at p is deleted
remove_monster_at_every(mpos, p) ==
    [m \in DOMAIN mpos |-> IF mpos[m] = p THEN NoPos ELSE mpos[m]]

\* deletes the first registry entry whose position is p
remove_monster_at(mpos, p) ==
    IF \E m \in DOMAIN mpos : mpos[m] = p
    THEN LET first == CHOOSE m \in DOMAIN mpos :
                          /\ mpos[m] = p
                          /\ \A k \in DOMAIN mpos : mpos[k] = p => m <= k
         IN  [mpos EXCEPT ![first] = NoPos]
    ELSE mpos

\* as create_empty_zone_at, but the cell is left as it was
create_empty_zone_at_skipped(w, p) == w

create_empty_zone_at(w, p) == IF InBounds(p) THEN [w EXCEPT ![p] = -1] ELSE w

update_robot_position(rpos, id, new_position) ==
    IF rpos[id] # NoPos THEN [rpos EXCEPT ![id] = new_position] ELSE rpos

unregister_robot(rpos, id) == [rpos EXCEPT ![id] = NoPos]

\* ---------------------------------------------------------- rule engine
SensorNames ==
    {"Energometro", "Lado1_Top", "Lado2_Left", "Vacuoscopio_Front",
     "Lado0_Front", "Roboscanner_Front", "Lado3_Right", "Lado4_Down"}

\* the value Python calls None, where the code uses it next to integers
None == 0 - 1

Action(tipo, directions) == [tipo |-> tipo, directions |-> directions]

\* perception.get(name, 0)
Get(perception, name) ==
    IF name \in DOMAIN perception THEN perception[name] ELSE 0

\* a row is a record of the eight sensor columns and Accion
\* as _matches_robot_perception, without the Energometro short-circuit
_matches_robot_perception_strict(rule, perception) ==
    \A column \in SensorNames :
        /\ column \in DOMAIN perception
        /\ rule[column] = perception[column]

_matches_robot_perception(rule, perception) ==
    IF rule.Energometro = 1
    THEN Get(perception, "Energometro") = 1
    ELSE \A column \in SensorNames :
            /\ column \in DOMAIN perception
            /\ rule[column] = perception[column]

MatchingRows(rules, perception) ==
    {i \in 1..Len(rules) : _matches_robot_perception(rules[i], perception)}

FirstOf(S) == CHOOSE i \in S : \A j \in S : i <= j

\* as get_robot_action, returning the bottom-most matching row
get_robot_action_bottom(rules, perception) ==
    IF MatchingRows(rules, perception) # {}
    THEN rules[CHOOSE i \in MatchingRows(rules, perception) :
                   \A j \in MatchingRows(rules, perception) : j <= i].Accion
    ELSE Action("move", <<"front">>)

get_robot_action(rules, perception) ==
    IF MatchingRows(rules, perception) # {}
    THEN rules[FirstOf(MatchingRows(rules, perception))].Accion
    ELSE Action("move", <<"front">>)

\* the row's position in the table, counted from 1; None when no row matches
get_robot_rule_number(rules, perception) ==
    IF MatchingRows(rules, perception) # {}
    THEN FirstOf(MatchingRows(rules, perception))
    ELSE None

\* the six global directions a monster perceives, in the order of the CSV
Directions == {"Top", "Left", "Front", "Right", "Down", "Behind"}

\* every direction is a column of the row and a key of the perception, and
\* the two values are equal
_matches_monster_perception(rule, perception) ==
    \A direction \in Directions :
        /\ direction \in DOMAIN rule
        /\ direction \in DOMAIN perception
        /\ rule[direction] = perception[direction]

MatchingMonsterRows(rules, perception) ==
    {i \in 1..Len(rules) : _matches_monster_perception(rules[i], perception)}

\* the Accion of the first matching row, "wait" when no row matches
get_monster_action(rules, perception) ==
    IF MatchingMonsterRows(rules, perception) # {}
    THEN rules[FirstOf(MatchingMonsterRows(rules, perception))].Accion
    ELSE "wait"

\* ------------------------------------------------- robot: pure functions
_get_front_position(pos, o) == Add(pos, o)

_get_backward_position(pos, o) == <<pos[1] - o[1], pos[2] - o[2], pos[3] - o[3]>>

\* as _rotate_left, but a vertical heading is turned into the x axis
_rotate_left_spatial(o) ==
    IF o[3] # 0 THEN <<0 - o[3], 0, 0>> ELSE <<0 - o[2], o[1], o[3]>>

_rotate_left(o) == <<0 - o[2], o[1], o[3]>>

_rotate_right(o) == <<o[2], 0 - o[1], o[3]>>

_get_left_position(pos, o) == Add(pos, _rotate_left(o))

_get_right_position(pos, o) == Add(pos, _rotate_right(o))

_get_up_position(pos) == <<pos[1], pos[2], pos[3] + 1>>

_get_down_position(pos) == <<pos[1], pos[2], pos[3] - 1>>

\* as _calculate_relative_rotation, computed by one formula for every token
\* instead of the table
_calculate_relative_rotation_formula(o, rotation_type) ==
    IF rotation_type \in {"x+90", "x-90", "y+90", "y-90"}
    THEN <<o[3] - o[1], o[2], 0 - o[1]>>
    ELSE o

\* the 24-entry table; any other orientation or token is returned unchanged
_calculate_relative_rotation(o, rotation_type) ==
    CASE rotation_type = "y-90" ->
            (CASE o = <<0, 1, 0>> -> <<1, 0, 0>>
               [] o = <<0, -1, 0>> -> <<-1, 0, 0>>
               [] o = <<1, 0, 0>> -> <<0, -1, 0>>
               [] o = <<-1, 0, 0>> -> <<0, 1, 0>>
               [] o = <<0, 0, 1>> -> <<1, 0, 0>>
               [] o = <<0, 0, -1>> -> <<-1, 0, 0>>
               [] OTHER -> o)
      [] rotation_type = "y+90" ->
            (CASE o = <<0, 1, 0>> -> <<-1, 0, 0>>
               [] o = <<0, -1, 0>> -> <<1, 0, 0>>
               [] o = <<1, 0, 0>> -> <<0, 1, 0>>
               [] o = <<-1, 0, 0>> -> <<0, -1, 0>>
               [] o = <<0, 0, 1>> -> <<-1, 0, 0>>
               [] o = <<0, 0, -1>> -> <<1, 0, 0>>
               [] OTHER -> o)
      [] rotation_type = "x+90" ->
            (CASE o = <<0, 1, 0>> -> <<0, 0, 1>>
               [] o = <<0, -1, 0>> -> <<0, 0, -1>>
               [] o = <<1, 0, 0>> -> <<0, 1, 0>>
               [] o = <<-1, 0, 0>> -> <<0, -1, 0>>
               [] o = <<0, 0, 1>> -> <<0, -1, 0>>
               [] o = <<0, 0, -1>> -> <<0, 1, 0>>
               [] OTHER -> o)
      [] rotation_type = "x-90" ->
            (CASE o = <<0, 1, 0>> -> <<0, 0, -1>>
               [] o = <<0, -1, 0>> -> <<0, 0, 1>>
               [] o = <<1, 0, 0>> -> <<0, -1, 0>>
               [] o = <<-1, 0, 0>> -> <<0, 1, 0>>
               [] o = <<0, 0, 1>> -> <<0, 1, 0>>
               [] o = <<0, 0, -1>> -> <<0, -1, 0>>
               [] OTHER -> o)
      [] OTHER -> o

RotationTokens == {"x+90", "x-90", "y+90", "y-90"}

\* the orientation the filter computes for a rotation token (its own
\* formulas, not the table above)
FilterRotation(o, direction) ==
    CASE direction = "x+90" -> <<o[1], 0 - o[3], o[2]>>
      [] direction = "x-90" -> <<o[1], o[3], 0 - o[2]>>
      [] direction = "y+90" -> <<o[3], o[2], 0 - o[1]>>
      [] direction = "y-90" -> <<0 - o[3], o[2], o[1]>>

_filter_effective_rotations(o, directions) ==
    SelectSeq(directions,
              LAMBDA d : d \in RotationTokens => FilterRotation(o, d) # o)

SeqRange(s) == {s[i] : i \in DOMAIN s}

\* the executed_direction values _calculate_new_state can return (more than
\* one only where random.choice draws)
ExecutedDirections(action, o) ==
    CASE action.tipo = "memory" -> {"back"}
      [] action.tipo \in {"move", "rotate"} ->
            IF action.directions # <<>> THEN {action.directions[1]} ELSE {"none"}
      [] action.tipo = "move_random" ->
            IF action.directions = <<>> THEN {"none"}
            ELSE IF _filter_effective_rotations(o, action.directions) # <<>>
                 THEN SeqRange(_filter_effective_rotations(o, action.directions))
                 ELSE {action.directions[1]}
      [] OTHER -> {"none"}

\* 'rotate' with no directions reads the unbound local `direction`
\* (robot.py:586): UnboundLocalError, which the except clause does not catch
CalculateNewStateRaises(action) ==
    action.tipo = "rotate" /\ action.directions = <<>>

\* as _convert_to_specific_action, but a random move is kept as it is
_convert_to_specific_action_kept(action, executed_direction) == action

_convert_to_specific_action(action, executed_direction) ==
    IF action.tipo = "move_random"
    THEN Action("move", <<executed_direction>>)
    ELSE action

_perceptions_match(current_perceptions, stored_perceptions) ==
    \A sensor \in SensorNames :
        current_perceptions[sensor] = stored_perceptions[sensor]

\* -------------------------------------------------------- robot: memory
NoAction == Action("None", <<>>)

Experience(perceptions, action) == [perceptions |-> perceptions, action |-> action]

MatchingExperiences(memory, perceptions) ==
    {k \in 1..Len(memory) : _perceptions_match(perceptions, memory[k].perceptions)}

LastOf(S) == CHOOSE i \in S : \A j \in S : j <= i

\* as consult_memory, looking at the most recent experience only
consult_memory_latest(memory, perceptions) ==
    IF Len(memory) > 0 /\ _perceptions_match(perceptions, memory[Len(memory)].perceptions)
    THEN memory[Len(memory)].action
    ELSE NoAction

\* scans from the most recent experience; NoAction is Python's None
consult_memory(memory, perceptions) ==
    IF MatchingExperiences(memory, perceptions) # {}
    THEN memory[LastOf(MatchingExperiences(memory, perceptions))].action
    ELSE NoAction

\* as _save_to_memory, cutting with memory[:memory_limit]
_save_to_memory_oldest(memory, perceptions, action) ==
    LET appended == Append(memory, Experience(perceptions, action))
    IN  IF Len(appended) > ROBOT_MEMORY_LIMIT
        THEN SubSeq(appended, 1, ROBOT_MEMORY_LIMIT)
        ELSE appended

\* memory.append(experience); memory = memory[-memory_limit:]
_save_to_memory(memory, perceptions, action) ==
    LET appended == Append(memory, Experience(perceptions, action))
    IN  IF Len(appended) > ROBOT_MEMORY_LIMIT
        THEN SubSeq(appended, Len(appended) - ROBOT_MEMORY_LIMIT + 1, Len(appended))
        ELSE appended

\* as reset_vacuscope_memory, but the flag survives the decision
reset_vacuscope_memory_kept(rb) == rb

reset_vacuscope_memory(rb) == [rb EXCEPT !.vacuscope_memory = 0]

\* ---------------------------------------------------- robot: perception
Robot(position) ==
    [position |-> position,
     orientation |-> <<0, 0, 1>>,
     alive |-> TRUE,
     monsters_destroyed |-> 0,
     robots_collided |-> 0,
     sensors |-> [s \in SensorNames |-> 0],
     memory |-> <<>>,
     previous_position |-> NoPos,
     collided_with_empty |-> FALSE,
     vacuscope_memory |-> 0]

Monster(position) ==
    [position |-> position, alive |-> TRUE, steps_since_last_action |-> 0]

Detect(mpos, p) == IF is_monster_at(mpos, p) THEN 1 ELSE 0

_update_vacuscope(rb) == IF rb.vacuscope_memory = -1 THEN -1 ELSE 0

\* another robot registered in the forward cell: Roboscanner_Front = 2 and
\* _handle_robot_encounter turns the robot y+90
RobotAhead(rb, id, rpos) ==
    is_robot_at(rpos, _get_front_position(rb.position, rb.orientation), id)

\* as _handle_robot_encounter, turning to the right (y-90)
_handle_robot_encounter_right(rb) ==
    [rb EXCEPT !.orientation = _calculate_relative_rotation(@, "y-90")]

_handle_robot_encounter(rb) ==
    [rb EXCEPT !.orientation = _calculate_relative_rotation(@, "y+90")]

Sensed(rb, id, mpos, rpos) ==
    [Energometro |-> Detect(mpos, rb.position),
     Lado1_Top |-> Detect(mpos, _get_up_position(rb.position)),
     Lado2_Left |-> Detect(mpos, _get_left_position(rb.position, rb.orientation)),
     Vacuoscopio_Front |-> _update_vacuscope(rb),
     Lado0_Front |-> Detect(mpos, _get_front_position(rb.position, rb.orientation)),
     Roboscanner_Front |-> IF RobotAhead(rb, id, rpos) THEN 2 ELSE 0,
     Lado3_Right |-> Detect(mpos, _get_right_position(rb.position, rb.orientation)),
     Lado4_Down |-> Detect(mpos, _get_down_position(rb.position))]

\* the robot after perceive(); a dead robot returns {} and changes nothing
perceive(rb, id, mpos, rpos) ==
    IF ~rb.alive THEN rb
    ELSE LET sensed == [rb EXCEPT !.sensors = Sensed(rb, id, mpos, rpos)]
         IN  IF RobotAhead(rb, id, rpos) THEN _handle_robot_encounter(sensed)
             ELSE sensed

\* ------------------------------------------------- robot: action effects
\* what an executed action leaves behind: the robot, both registries, the
\* cells and the monsters
Effect(rb, rpos, mpos, w, ms) ==
    [rb |-> rb, rpos |-> rpos, mpos |-> mpos, w |-> w, ms |-> ms]

\* shared body of _move_front, _move_up, _move_left, _move_right and
\* _move_down; only _move_front (front = TRUE) records the block
MoveTo(rb, id, rpos, w, target, front) ==
    LET kept == [rb EXCEPT !.previous_position = rb.position]
    IN  IF is_valid_position(w, target)
        THEN [rb |-> [kept EXCEPT !.position = target],
              rpos |-> update_robot_position(rpos, id, target)]
        ELSE [rb |-> IF front
                     THEN [kept EXCEPT !.collided_with_empty = TRUE,
                                       !.vacuscope_memory = -1]
                     ELSE kept,
              rpos |-> rpos]

\* as _move_front, but a blocked advance is not recorded
_move_front_unflagged(rb, id, rpos, w) ==
    MoveTo(rb, id, rpos, w, _get_front_position(rb.position, rb.orientation), FALSE)

_move_front(rb, id, rpos, w) ==
    MoveTo(rb, id, rpos, w, _get_front_position(rb.position, rb.orientation), TRUE)

_move_up(rb, id, rpos, w) ==
    MoveTo(rb, id, rpos, w, _get_up_position(rb.position), FALSE)

_move_left(rb, id, rpos, w) ==
    MoveTo(rb, id, rpos, w, _get_left_position(rb.position, rb.orientation), FALSE)

_move_right(rb, id, rpos, w) ==
    MoveTo(rb, id, rpos, w, _get_right_position(rb.position, rb.orientation), FALSE)

_move_down(rb, id, rpos, w) ==
    MoveTo(rb, id, rpos, w, _get_down_position(rb.position), FALSE)

\* as Rotate, recording the position as the translations do
Rotate_recording(rb, rpos, token) ==
    [rb |-> [rb EXCEPT !.orientation = _calculate_relative_rotation(@, token),
                       !.previous_position = rb.position],
     rpos |-> rpos]

Rotate(rb, rpos, token) ==
    [rb |-> [rb EXCEPT !.orientation = _calculate_relative_rotation(@, token)],
     rpos |-> rpos]

\* as _move_in_direction, advancing on a token it does not know
_move_in_direction_lenient(rb, id, rpos, w, direction) ==
    CASE direction = "top" -> _move_up(rb, id, rpos, w)
      [] direction = "left" -> _move_left(rb, id, rpos, w)
      [] direction = "right" -> _move_right(rb, id, rpos, w)
      [] direction = "down" -> _move_down(rb, id, rpos, w)
      [] direction \in RotationTokens -> Rotate(rb, rpos, direction)
      [] OTHER -> _move_front(rb, id, rpos, w)

_move_in_direction(rb, id, rpos, w, direction) ==
    CASE direction \in {"front", "z+90"} -> _move_front(rb, id, rpos, w)
      [] direction = "top" -> _move_up(rb, id, rpos, w)
      [] direction = "left" -> _move_left(rb, id, rpos, w)
      [] direction = "right" -> _move_right(rb, id, rpos, w)
      [] direction = "down" -> _move_down(rb, id, rpos, w)
      [] direction \in RotationTokens -> Rotate(rb, rpos, direction)
      [] OTHER -> [rb |-> rb, rpos |-> rpos]

_step_back_from_empty(rb, id, rpos) ==
    IF rb.previous_position # NoPos
    THEN [rb |-> [rb EXCEPT !.position = rb.previous_position,
                            !.collided_with_empty = FALSE],
          rpos |-> update_robot_position(rpos, id, rb.previous_position)]
    ELSE [rb |-> rb, rpos |-> rpos]

\* as FirstAliveAt, without the monster.alive test
FirstAliveAt_or_dead(ms, p) ==
    IF \E m \in DOMAIN ms : ms[m].position = p
    THEN FirstOf({m \in DOMAIN ms : ms[m].position = p})
    ELSE 0

\* the first live monster of monsters_list standing on p (0 when none)
FirstAliveAt(ms, p) ==
    IF \E m \in DOMAIN ms : ms[m].alive /\ ms[m].position = p
    THEN FirstOf({m \in DOMAIN ms : ms[m].alive /\ ms[m].position = p})
    ELSE 0

\* as _destroy_monster, without the is_monster_at test
_destroy_monster_unchecked(rb, id, rpos, mpos, w, ms) ==
    LET victim == FirstAliveAt(ms, rb.position)
        killed == victim # 0
    IN  Effect([rb EXCEPT !.monsters_destroyed = IF killed THEN @ + 1 ELSE @,
                          !.alive = FALSE],
               unregister_robot(rpos, id),
               remove_monster_at(mpos, rb.position),
               create_empty_zone_at(w, rb.position),
               IF killed THEN [ms EXCEPT ![victim].alive = FALSE] ELSE ms)

_destroy_monster(rb, id, rpos, mpos, w, ms) ==
    IF is_monster_at(mpos, rb.position)
    THEN LET victim == FirstAliveAt(ms, rb.position)
             killed == victim # 0
         IN  Effect([rb EXCEPT !.monsters_destroyed = IF killed THEN @ + 1 ELSE @,
                               !.alive = FALSE],
                    unregister_robot(rpos, id),
                    remove_monster_at(mpos, rb.position),
                    create_empty_zone_at(w, rb.position),
                    IF killed THEN [ms EXCEPT ![victim].alive = FALSE] ELSE ms)
    ELSE Effect(rb, rpos, mpos, w, ms)

\* as _execute_action, but a robot that moves leaves an empty zone behind
_execute_action_trailing(action, rb, id, rpos, mpos, w, ms) ==
    CASE action.tipo = "destroy" -> _destroy_monster(rb, id, rpos, mpos, w, ms)
      [] action.tipo = "memory" ->
            LET r == _step_back_from_empty(rb, id, rpos)
            IN  Effect(r.rb, r.rpos, mpos, w, ms)
      [] action.tipo \in {"move", "move_random"} /\ action.directions # <<>> ->
            LET r == _move_in_direction(rb, id, rpos, w, action.directions[1])
            IN  Effect(r.rb, r.rpos, mpos,
                       IF r.rb.position # rb.position
                       THEN create_empty_zone_at(w, rb.position) ELSE w,
                       ms)
      [] OTHER -> Effect(rb, rpos, mpos, w, ms)

\* _execute_action: dispatch on the parsed 'tipo'; any other tipo only warns
_execute_action(action, rb, id, rpos, mpos, w, ms) ==
    CASE action.tipo = "destroy" -> _destroy_monster(rb, id, rpos, mpos, w, ms)
      [] action.tipo = "memory" ->
            LET r == _step_back_from_empty(rb, id, rpos)
            IN  Effect(r.rb, r.rpos, mpos, w, ms)
      [] action.tipo \in {"move", "move_random"} /\ action.directions # <<>> ->
            LET r == _move_in_direction(rb, id, rpos, w, action.directions[1])
            IN  Effect(r.rb, r.rpos, mpos, w, ms)
      [] OTHER -> Effect(rb, rpos, mpos, w, ms)

\* ------------------------------------------------------- monster: gating
\* as DrawExceeds, comparing with >=
DrawExceeds_or_equals(u, p) == u >= p

\* random.random() > self.p, both in units of 1/ProbScale
DrawExceeds(u, p) == u > p

\* Monster.act up to the rule lookup: "cooldown" (counter still below K),
\* "skip" (the draw exceeded p) or "resolve" (the rule engine is consulted)
Gate(mo, u, p) ==
    IF mo.steps_since_last_action + 1 < MONSTER_FREQUENCY THEN "cooldown"
    ELSE IF DrawExceeds(u, p) THEN "skip"
    ELSE "resolve"

\* the monster after act(); on "resolve" the call
\* rule_engine.get_monster_rule_number raises AttributeError (RuleEngine has
\* no such method) before the action is executed and before the counter is
\* reset, so only the increment remains
MonsterAct(mo, u, p) ==
    IF Gate(mo, u, p) = "skip"
    THEN [mo EXCEPT !.steps_since_last_action = 0]
    ELSE [mo EXCEPT !.steps_since_last_action = @ + 1]

\* ---------------------------------------------------- monster: execution
\* a monster action string as _execute_action reads it: the text it starts
\* with, and the comma-separated names between '[' and ']'
Surface(prefix, inside) == [prefix |-> prefix, inside |-> inside]

update_monster_position(mpos, id, new_position) ==
    IF mpos[id] # NoPos THEN [mpos EXCEPT ![id] = new_position] ELSE mpos

\* direction_map of _move_to_direction
direction_map(pos) ==
    [Top |-> <<pos[1], pos[2], pos[3] + 1>>,
     Left |-> <<pos[1] - 1, pos[2], pos[3]>>,
     Front |-> <<pos[1], pos[2] + 1, pos[3]>>,
     Right |-> <<pos[1] + 1, pos[2], pos[3]>>,
     Down |-> <<pos[1], pos[2], pos[3] - 1>>,
     Behind |-> <<pos[1], pos[2] - 1, pos[3]>>]

\* Monster.perceive: 0 for a neighbour is_valid_position accepts, -1 otherwise
Monster_perceive(mo, w) ==
    LET directions ==
            [Top |-> <<mo.position[1], mo.position[2], mo.position[3] + 1>>,
             Left |-> <<mo.position[1] - 1, mo.position[2], mo.position[3]>>,
             Front |-> <<mo.position[1], mo.position[2] + 1, mo.position[3]>>,
             Right |-> <<mo.position[1] + 1, mo.position[2], mo.position[3]>>,
             Down |-> <<mo.position[1], mo.position[2], mo.position[3] - 1>>,
             Behind |-> <<mo.position[1], mo.position[2] - 1, mo.position[3]>>]
    IN  [direction \in Directions |->
            IF is_valid_position(w, directions[direction]) THEN 0 ELSE -1]

\* as _move_to_direction, without the is_valid_position test
_move_to_direction_unchecked(mo, id, mpos, w, direction) ==
    IF direction \in Directions
    THEN [mo |-> [mo EXCEPT !.position = direction_map(mo.position)[direction]],
          mpos |-> update_monster_position(mpos, id, direction_map(mo.position)[direction])]
    ELSE [mo |-> mo, mpos |-> mpos]

\* the monster and the registry after _move_to_direction
_move_to_direction(mo, id, mpos, w, direction) ==
    IF direction \in Directions /\ is_valid_position(w, direction_map(mo.position)[direction])
    THEN [mo |-> [mo EXCEPT !.position = direction_map(mo.position)[direction]],
          mpos |-> update_monster_position(mpos, id, direction_map(mo.position)[direction])]
    ELSE [mo |-> mo, mpos |-> mpos]

\* the names random.choice can draw from the bracket text; an empty text
\* splits into one empty name
BracketNames(inside) == IF inside = <<>> THEN {""} ELSE SeqRange(inside)

\* Monster._execute_action with the name `chosen` drawn where it draws;
\* "Mover hacia" takes the whole bracket text as one name
Monster_execute_action(mo, id, mpos, w, action, chosen) ==
    CASE action.prefix = "wait" -> [mo |-> mo, mpos |-> mpos]
      [] action.prefix = "Mover aleatorio entre" ->
            _move_to_direction(mo, id, mpos, w, chosen)
      [] action.prefix = "Mover hacia" ->
            IF Len(action.inside) = 1
            THEN _move_to_direction(mo, id, mpos, w, action.inside[1])
            ELSE [mo |-> mo, mpos |-> mpos]
      [] OTHER -> [mo |-> mo, mpos |-> mpos]

\* ------------------------------------------------------------ rule tables
Row(e, t, l, v, f, r, ri, d, accion) ==
    [Energometro |-> e, Lado1_Top |-> t, Lado2_Left |-> l,
     Vacuoscopio_Front |-> v, Lado0_Front |-> f, Roboscanner_Front |-> r,
     Lado3_Right |-> ri, Lado4_Down |-> d, Accion |-> accion]

Forward == Action("move", <<"z+90">>)

\* hunts: destroy on contact, step back after a block, otherwise advance
HunterRules ==
    <<Row(1, 0, 0, 0, 0, 0, 0, 0, Action("destroy", <<>>)),
      Row(0, 0, 0, -1, 0, 0, 0, 0, Action("memory", <<>>)),
      Row(0, 0, 0, 0, 0, 0, 0, 0, Forward),
      Row(0, 0, 0, 0, 0, 2, 0, 0, Forward)>>

\* wanders: a random turn or advance after a block and next to a robot
WandererRules ==
    <<Row(0, 0, 0, -1, 0, 0, 0, 0, Action("move_random", <<"z+90", "y+90", "x-90">>)),
      Row(0, 0, 0, 0, 0, 0, 0, 0, Forward),
      Row(0, 0, 0, 0, 0, 2, 0, 0, Action("move_random", <<"y-90", "z+90">>)),
      Row(1, 0, 0, 0, 0, 0, 0, 0, Action("idle", <<>>))>>

\* insists: advances again after a block
StubbornRules ==
    <<Row(0, 0, 0, -1, 0, 0, 0, 0, Forward),
      Row(1, 1, 1, 0, 1, 0, 1, 0, Action("destroy", <<>>)),
      Row(0, 1, 1, 0, 1, 0, 1, 0, Action("rotate", <<>>)),
      Row(0, 0, 0, 0, 0, 0, 0, 0, Action("move", <<"y+90">>))>>

RuleTables == {HunterRules, WandererRules, StubbornRules}

\* advances whatever it perceives, except on a monster
ForwardRules ==
    <<Row(1, 0, 0, 0, 0, 0, 0, 0, Action("destroy", <<>>)),
      Row(0, 0, 0, -1, 0, 0, 0, 0, Forward),
      Row(0, 0, 0, 0, 0, 0, 0, 0, Forward),
      Row(0, 0, 0, 0, 0, 2, 0, 0, Forward)>>

\* a row of the monster table: the six direction columns and Accion
MonsterRow(t, l, f, r, d, b, accion) ==
    [Top |-> t, Left |-> l, Front |-> f, Right |-> r, Down |-> d, Behind |-> b,
     Accion |-> accion]

\* advances in the open, turns away from a wall ahead; the third row repeats
\* the sensor columns of the second
MonsterRules ==
    <<MonsterRow(0, 0, 0, 0, 0, 0, "move_front"),
      MonsterRow(0, 0, -1, 0, 0, 0, "move_left"),
      MonsterRow(0, 0, -1, 0, 0, 0, "move_right"),
      MonsterRow(-1, 0, 0, 0, 0, 0, "move_down")>>

\* ------------------------------------------------------------------ state
VARIABLES
    world,              \* Environment.world
    robot_positions,    \* Environment.robot_positions
    monster_positions,  \* Environment.monster_positions
    robots,             \* RealTimeSimulation.robots, by id
    monsters,           \* RealTimeSimulation.monsters, by id
    robot_rules,        \* RuleEngine.robot_rules
    monster_rules,      \* RuleEngine.monster_rules
    probability,        \* MONSTER_PROBABILITY, in units of 1/ProbScale
    operations,         \* RobotOperationLogger.operations, by robot id
    step,               \* RealTimeSimulation.step
    running,            \* RealTimeSimulation.running
    paused,             \* RealTimeSimulation.paused
    driver,             \* who runs the current step: "loop", "single" or "none"
    pc,                 \* position inside the step
    idx,                \* the agent whose turn it is
    turn,               \* locals of the turn: current_perceptions and action
    announced,          \* an end-of-step check has found a side extinct
    threads,            \* where each thread of the dashboard is, by thread id
    exc,                \* the exception that ended the last step ("" if none)
    last                \* what the last transition did (history)

vars ==
    <<world, robot_positions, monster_positions, robots, monsters, robot_rules,
      monster_rules, probability, operations, step, running, paused, driver, pc, idx, turn,
      exc, announced, threads, last>>

env == <<world, robot_positions, monster_positions>>
control == <<step, running, paused>>

\* the threads update_simulation can have alive at once: thread 0 serves the
\* Dash callback, threads 1..MaxThreads are simulation_loop threads
MaxThreads == 2
ThreadIds == 0..MaxThreads
LoopThreads == 1..MaxThreads

\* a thread: where it is ("none" when it does not exist) and the value of
\* self.step it read for self.step += 1
Thread(at, local) == [at |-> at, local |-> local]
NoThreads == [t \in ThreadIds |-> Thread("none", 0)]

NoTurn ==
    [perceptions |-> [s \in SensorNames |-> 0], rule_num |-> None, action |-> NoAction]

\* history record: the operation, the agent, and for an executed robot action
\* the action, the robot's position before it and the forward cell before it
Did(op, id, action, from, target) ==
    [op |-> op, id |-> id, action |-> action, from |-> from, target |-> target]

Note(op, id) == Did(op, id, NoAction, NoPos, NoPos)

\* ------------------------------------------------------------------- Init
\* initialize_simulation: a generated world, every agent on a cell drawn by
\* get_random_internal_free_position (or all on one fixed cell); the draw does
\* not exclude occupied cells
\* the interior cells _generate_world drew as empty
InternalEmpty == {<<2, 2, 2>>}

\* config.py sets 0.5
MONSTER_PROBABILITY == ProbScale \div 2

RobotStarts == {<<1, 1, 1>>, <<2, 1, 1>>, <<2, 1, 2>>}

MonsterStarts == {<<1, 1, 1>>, <<2, 1, 2>>}

InitWorld(internal_empty, rstart, mstart, rules, p) ==
    /\ world = _generate_world(internal_empty)
    /\ robot_positions = rstart
    /\ monster_positions = mstart
    /\ robots = [r \in RobotIds |-> Robot(rstart[r])]
    /\ monsters = [m \in MonsterIds |-> Monster(mstart[m])]
    /\ robot_rules = rules
    /\ monster_rules = MonsterRules
    /\ probability = p
    /\ operations = [r \in RobotIds |-> <<>>]
    /\ step = 0
    /\ running = FALSE
    /\ paused = FALSE
    /\ driver = "none"
    /\ pc = "idle"
    /\ idx = 0
    /\ turn = NoTurn
    /\ exc = ""
    /\ announced = FALSE
    /\ threads = NoThreads
    /\ last = Note("init", 0)

Init ==
    \E rstart \in [RobotIds -> RobotStarts \cap get_internal_free_positions(_generate_world(InternalEmpty))] :
    \E mstart \in [MonsterIds -> MonsterStarts \cap get_internal_free_positions(_generate_world(InternalEmpty))] :
    \E rules \in RuleTables :
        InitWorld(InternalEmpty, rstart, mstart, rules, MONSTER_PROBABILITY)

\* the construction with a single robot, as in the shipped configuration
\* (NUM_ROBOTS = 1): the lists robots and robot_positions hold one entry
SoloInit ==
    \E rpos \in RobotStarts \cap get_internal_free_positions(_generate_world(InternalEmpty)) :
    \E mstart \in [MonsterIds -> MonsterStarts \cap get_internal_free_positions(_generate_world(InternalEmpty))] :
    \E rules \in RuleTables :
        /\ world = _generate_world(InternalEmpty)
        /\ robot_positions = <<rpos>>
        /\ monster_positions = mstart
        /\ robots = <<Robot(rpos)>>
        /\ monsters = [m \in MonsterIds |-> Monster(mstart[m])]
        /\ robot_rules = rules
        /\ monster_rules = MonsterRules
        /\ probability = MONSTER_PROBABILITY
        /\ operations = << <<>> >>
        /\ step = 0
        /\ running = FALSE
        /\ paused = FALSE
        /\ driver = "none"
        /\ pc = "idle"
        /\ idx = 0
        /\ turn = NoTurn
        /\ exc = ""
        /\ announced = FALSE
        /\ threads = NoThreads
        /\ last = Note("init", 0)

\* the same construction with the table that always advances
ForwardInit ==
    \E rstart \in [RobotIds -> RobotStarts \cap get_internal_free_positions(_generate_world(InternalEmpty))] :
    \E mstart \in [MonsterIds -> MonsterStarts \cap get_internal_free_positions(_generate_world(InternalEmpty))] :
        InitWorld(InternalEmpty, rstart, mstart, ForwardRules, MONSTER_PROBABILITY)

\* ------------------------------------------------------ dashboard buttons
\* update_simulation, for a click that arrives while no step is in progress;
\* the stop and reset buttons are not modelled
Launch(who) ==
    /\ driver' = who
    /\ pc' = "head"
    /\ exc' = ""
    /\ idx' = 0
    /\ turn' = NoTurn

Start ==
    /\ pc = "idle"
    /\ ~running
    /\ running' = TRUE
    /\ paused' = FALSE
    /\ Launch("loop")
    /\ last' = Note("start", 0)
    /\ UNCHANGED <<env, robots, monsters, robot_rules, monster_rules, probability, announced, threads, operations, step>>

Pause ==
    /\ pc = "idle"
    /\ running /\ ~paused
    /\ paused' = TRUE
    /\ running' = FALSE
    /\ last' = Note("pause", 0)
    /\ UNCHANGED <<env, robots, monsters, robot_rules, monster_rules, probability, announced, threads, operations,
                   step, driver, pc, idx, turn, exc>>

Resume ==
    /\ pc = "idle"
    /\ ~(running /\ ~paused) /\ paused
    /\ paused' = FALSE
    /\ running' = TRUE
    /\ Launch("loop")
    /\ last' = Note("resume", 0)
    /\ UNCHANGED <<env, robots, monsters, robot_rules, monster_rules, probability, announced, threads, operations, step>>

StepButton ==
    /\ pc = "idle"
    /\ paused
    /\ Launch("single")
    /\ last' = Note("step", 0)
    /\ UNCHANGED <<env, robots, monsters, robot_rules, monster_rules, probability, announced, threads, operations,
                   control>>

\* ------------------------------------------------------------ step: head
AliveRobots == {r \in DOMAIN robots : robots[r].alive}
AliveMonsters == {m \in MonsterIds : monsters[m].alive}

\* the step ends: the loop thread is gone or the callback has returned
Leave(error) ==
    /\ pc' = "idle"
    /\ driver' = "none"
    /\ exc' = error
    /\ idx' = 0
    /\ turn' = NoTurn

\* simulation_loop: the while test, the victory test and the increment;
\* execute_single_step: the cap test, the victory test and the increment
StepHead ==
    /\ pc = "head"
    /\ last' = Note("head", 0)
    /\ IF (driver = "loop" /\ ~running) \/ step >= SIMULATION_STEPS
       THEN /\ running' = IF driver = "loop" /\ step >= SIMULATION_STEPS
                          THEN FALSE ELSE running
            /\ Leave("")
            /\ UNCHANGED step
       ELSE IF AliveMonsters = {}
       THEN /\ running' = IF driver = "loop" THEN FALSE ELSE running
            /\ Leave("")
            /\ UNCHANGED step
       ELSE /\ step' = step + 1
            /\ pc' = "perceive"
            /\ idx' = 1
            /\ UNCHANGED <<running, driver, exc, turn>>
    /\ UNCHANGED <<env, robots, monsters, robot_rules, monster_rules, probability, announced, threads, operations, paused>>

\* ----------------------------------------------------- step: robot phase
\* after robot i: the next robot, or what the driver does after the robots
AfterRobot(i) ==
    IF i < Len(robots)
    THEN /\ pc' = "perceive"
         /\ idx' = i + 1
    ELSE /\ pc' = IF driver = "loop" THEN "robot_sweep" ELSE "monsters"
         /\ idx' = 1

RobotSkip ==
    /\ pc = "perceive"
    /\ ~robots[idx].alive
    /\ AfterRobot(idx)
    /\ last' = Note("skip", idx)
    /\ UNCHANGED <<env, robots, monsters, robot_rules, monster_rules, probability, announced, threads, operations,
                   control, driver, turn, exc>>

\* current_perceptions = robot.perceive();
\* rule_num = rule_engine.get_robot_rule_number(current_perceptions)
RobotPerceive ==
    /\ pc = "perceive"
    /\ robots[idx].alive
    /\ robots' = [robots EXCEPT ![idx] = perceive(@, idx, monster_positions, robot_positions)]
    /\ turn' = [perceptions |-> robots'[idx].sensors,
                rule_num |-> get_robot_rule_number(robot_rules, robots'[idx].sensors),
                action |-> NoAction]
    /\ pc' = "act"
    /\ last' = Note("perceive", idx)
    /\ UNCHANGED <<env, monsters, robot_rules, monster_rules, probability, announced, threads, operations, control,
                   driver, idx, exc>>

\* as Decide, but memory is consulted whatever the vacuscope reads
Decide_memory_first(memory, rules, perceptions) ==
    LET memory_action == consult_memory(memory, perceptions)
    IN  IF memory_action # NoAction
        THEN [action |-> memory_action, rule_num |-> 0,
              memory_action |-> memory_action, uses_memory |-> 1, uses_rule |-> 0]
        ELSE [action |-> get_robot_action(rules, perceptions),
              rule_num |-> get_robot_rule_number(rules, perceptions),
              memory_action |-> NoAction, uses_memory |-> 0, uses_rule |-> 1]

\* Robot.act, the decision: rule 35 first, then memory, then the rule book
Decide(memory, rules, perceptions) ==
    LET is_rule_35 == perceptions.Vacuoscopio_Front = -1
        memory_action == IF is_rule_35 THEN NoAction
                         ELSE consult_memory(memory, perceptions)
    IN  IF memory_action # NoAction
        THEN [action |-> memory_action, rule_num |-> 0,
              memory_action |-> memory_action, uses_memory |-> 1, uses_rule |-> 0]
        ELSE [action |-> get_robot_action(rules, perceptions),
              rule_num |-> get_robot_rule_number(rules, perceptions),
              memory_action |-> NoAction, uses_memory |-> 0, uses_rule |-> 1]

OperationData(position, orientation, perceptions, decision, specific_action) ==
    [position |-> position,
     orientation |-> orientation,
     sensors |-> perceptions,
     rule_num |-> decision.rule_num,
     action |-> decision.action,
     specific_action |-> specific_action,
     memory_action |-> decision.memory_action,
     uses_memory |-> decision.uses_memory,
     uses_rule |-> decision.uses_rule,
     operation_number |-> 0]

\* RobotOperationLogger.store_operation: the counter is the buffer's length
\* and the record gets its number when it is stored
store_operation(buffer, operation_data) ==
    Append(buffer, [operation_data EXCEPT !.operation_number = Len(buffer) + 1])

\* the robot after act(): the experience saved, the vacuscope flag consumed
Acted(rb, perceptions, specific_action) ==
    LET saved == [rb EXCEPT !.memory = _save_to_memory(@, perceptions, specific_action)]
    IN  IF saved.vacuscope_memory = -1 THEN reset_vacuscope_memory(saved) ELSE saved

\* action = robot.act(current_perceptions, self.monsters)
RobotAct ==
    /\ pc = "act"
    /\ LET decision == Decide(robots[idx].memory, robot_rules, turn.perceptions)
       IN  IF CalculateNewStateRaises(decision.action)
           THEN /\ Leave("UnboundLocalError")
                /\ last' = Note("act_raised", idx)
                /\ UNCHANGED <<robots, operations>>
           ELSE \E executed \in ExecutedDirections(decision.action, robots[idx].orientation) :
                  LET specific == _convert_to_specific_action(decision.action, executed)
                  IN  /\ operations' = [operations EXCEPT ![idx] =
                             store_operation(@, OperationData(robots[idx].position,
                                                              robots[idx].orientation,
                                                              turn.perceptions,
                                                              decision, specific))]
                      /\ robots' = [robots EXCEPT ![idx] = Acted(@, turn.perceptions, specific)]
                      /\ turn' = [turn EXCEPT !.action = specific]
                      /\ pc' = "execute"
                      /\ last' = Did("act", idx, specific, robots[idx].position, NoPos)
                      /\ UNCHANGED <<driver, idx, exc>>
    /\ UNCHANGED <<env, monsters, robot_rules, monster_rules, probability, announced, threads, control>>

\* robot.execute_action(action, self.monsters, self.monster_logger)
RobotExecute ==
    /\ pc = "execute"
    /\ LET e == _execute_action(turn.action, robots[idx], idx, robot_positions,
                                monster_positions, world, monsters)
       IN  /\ robots' = [robots EXCEPT ![idx] = e.rb]
           /\ robot_positions' = e.rpos
           /\ monster_positions' = e.mpos
           /\ world' = e.w
           /\ monsters' = e.ms
    /\ pc' = "reperceive"
    /\ last' = Did("execute", idx, turn.action, robots[idx].position,
                   _get_front_position(robots[idx].position, robots[idx].orientation))
    /\ UNCHANGED <<robot_rules, monster_rules, probability, announced, threads, operations, control, driver, idx, turn, exc>>

\* current_perceptions = robot.perceive(False), after the action
RobotReperceive ==
    /\ pc = "reperceive"
    /\ robots' = [robots EXCEPT ![idx] = perceive(@, idx, monster_positions, robot_positions)]
    /\ AfterRobot(idx)
    /\ last' = Note("reperceive", idx)
    /\ UNCHANGED <<env, monsters, robot_rules, monster_rules, probability, announced, threads, operations, control,
                   driver, turn, exc>>

\* _handle_robot_collisions: its first statement calls
\* environment.detect_robot_collisions, which Environment does not define;
\* the AttributeError ends the loop thread
RobotSweep ==
    /\ pc = "robot_sweep"
    /\ Leave("AttributeError")
    /\ last' = Note("robot_sweep", 0)
    /\ UNCHANGED <<env, robots, monsters, robot_rules, monster_rules, probability, announced, threads, operations, control>>

\* --------------------------------------------------- step: monster phase
AfterMonster(j) ==
    IF j < NUM_MONSTERS
    THEN /\ pc' = "monsters"
         /\ idx' = j + 1
    ELSE /\ pc' = "check"
         /\ idx' = 0

MonsterSkip ==
    /\ pc = "monsters"
    /\ ~monsters[idx].alive
    /\ AfterMonster(idx)
    /\ last' = Note("skip", idx)
    /\ UNCHANGED <<env, robots, monsters, robot_rules, monster_rules, probability, announced, threads, operations,
                   control, driver, turn, exc>>

\* perceptions = monster.perceive(); action = monster.act(perceptions)
MonsterTurn ==
    /\ pc = "monsters"
    /\ monsters[idx].alive
    /\ \E u \in 0..(ProbScale - 1) :
          /\ monsters' = [monsters EXCEPT ![idx] = MonsterAct(@, u, probability)]
          /\ IF Gate(monsters[idx], u, probability) = "resolve"
             THEN /\ Leave("AttributeError")
                  /\ last' = Note("monster_raised", idx)
             ELSE /\ AfterMonster(idx)
                  /\ last' = Note("monster_wait", idx)
                  /\ UNCHANGED <<driver, turn, exc>>
    /\ UNCHANGED <<env, robots, robot_rules, monster_rules, probability, announced, threads, operations, control>>

\* execute_single_step: the extinction test; finalizing the logs calls
\* _calculate_final_stats, whose environment.count_free_zones does not exist
Check ==
    /\ pc = "check"
    /\ Leave(IF AliveRobots = {} \/ AliveMonsters = {} THEN "AttributeError" ELSE "")
    /\ announced' = (announced \/ AliveRobots = {} \/ AliveMonsters = {})
    /\ last' = Note("check", 0)
    /\ UNCHANGED <<env, robots, monsters, robot_rules, monster_rules, probability, threads, operations,
                   control>>

Next ==
    \/ Start
    \/ Pause
    \/ Resume
    \/ StepButton
    \/ StepHead
    \/ RobotSkip
    \/ RobotPerceive
    \/ RobotAct
    \/ RobotExecute
    \/ RobotReperceive
    \/ RobotSweep
    \/ MonsterSkip
    \/ MonsterTurn
    \/ Check

Spec == Init /\ [][Next]_vars

SpecForward == ForwardInit /\ [][Next]_vars

\* the program with one robot
SpecSolo == SoloInit /\ [][Next]_vars

\* ------------------------------------------------- rule lookup on its own
\* every perception the eight sensors can deliver
Perceptions ==
    {[Energometro |-> e, Lado1_Top |-> t, Lado2_Left |-> l,
      Vacuoscopio_Front |-> v, Lado0_Front |-> f, Roboscanner_Front |-> r,
      Lado3_Right |-> ri, Lado4_Down |-> d] :
        e \in {0, 1}, t \in {0, 1}, l \in {0, 1}, v \in {0, -1},
        f \in {0, 1}, r \in {0, 2}, ri \in {0, 1}, d \in {0, 1}}

\* Energometro rows second and third, between two full-match rows
GuardedRules ==
    <<Row(0, 0, 0, -1, 0, 0, 0, 0, Action("memory", <<>>)),
      Row(1, 0, 1, 0, 0, 2, 0, 1, Action("destroy", <<>>)),
      Row(1, 0, 0, 0, 0, 0, 0, 0, Action("idle", <<>>)),
      Row(0, 1, 1, 0, 1, 0, 1, 0, Forward)>>

LookupTables == RuleTables \cup {GuardedRules, <<>>}

\* every perception Monster.perceive can deliver
MonsterPerceptions == [Directions -> {0, -1}]

MonsterTables == {MonsterRules, <<>>}

\* a rule engine with its tables loaded and a robot's or a monster's
\* perception about to be looked up
LookupInit ==
    \E rules \in LookupTables :
    \E mrules \in MonsterTables :
    \E who \in {"lookup", "monster_lookup"} :
    \E perception \in IF who = "lookup" THEN Perceptions ELSE MonsterPerceptions :
        /\ world = _generate_world(InternalEmpty)
        /\ robot_positions = [r \in RobotIds |-> <<1, 1, 1>>]
        /\ monster_positions = [m \in MonsterIds |-> <<1, 1, 1>>]
        /\ robots = [r \in RobotIds |-> Robot(<<1, 1, 1>>)]
        /\ monsters = [m \in MonsterIds |-> Monster(<<1, 1, 1>>)]
        /\ robot_rules = rules
        /\ monster_rules = mrules
        /\ probability = MONSTER_PROBABILITY
        /\ operations = [r \in RobotIds |-> <<>>]
        /\ step = 0
        /\ running = FALSE
        /\ paused = FALSE
        /\ driver = "none"
        /\ pc = who
        /\ idx = 0
        /\ turn = [NoTurn EXCEPT !.perceptions = perception]
        /\ exc = ""
        /\ announced = FALSE
        /\ threads = NoThreads
        /\ last = Note("init", 0)

\* get_robot_action and get_robot_rule_number on the perception
Lookup ==
    /\ pc = "lookup"
    /\ turn' = [turn EXCEPT
                  !.rule_num = get_robot_rule_number(robot_rules, turn.perceptions),
                  !.action = get_robot_action(robot_rules, turn.perceptions)]
    /\ pc' = "looked"
    /\ last' = Note("lookup", 0)
    /\ UNCHANGED <<env, robots, monsters, robot_rules, monster_rules, probability, announced, threads, operations,
                   control, driver, idx, exc>>

\* get_monster_action on the perception
MonsterLookup ==
    /\ pc = "monster_lookup"
    /\ turn' = [turn EXCEPT
                  !.action = get_monster_action(monster_rules, turn.perceptions)]
    /\ pc' = "monster_looked"
    /\ last' = Note("monster_lookup", 0)
    /\ UNCHANGED <<env, robots, monsters, robot_rules, monster_rules, probability, announced, threads,
                   operations, control, driver, idx, exc>>

LookupNext ==
    \/ Lookup
    \/ MonsterLookup

SpecLookup == LookupInit /\ [][LookupNext]_vars

\* ------------------------------------------------ monster gate on its own
\* the act() calls made on the monsters of one run
GateCalls == 5

\* history record of one act() call: the draw, and whether the incremented
\* counter had reached K
Called(op, id, u, eligible) ==
    [op |-> op, id |-> id, action |-> NoAction, from |-> NoPos, target |-> NoPos,
     draw |-> u, eligible |-> eligible]

\* monsters built with any probability p = 0, 1/ProbScale, .., 1 and about to
\* be stepped by calling act() on them
GateInit ==
    \E p \in 0..ProbScale :
        /\ world = _generate_world(InternalEmpty)
        /\ robot_positions = [r \in RobotIds |-> <<1, 1, 1>>]
        /\ monster_positions = [m \in MonsterIds |-> <<2, 1, 2>>]
        /\ robots = [r \in RobotIds |-> Robot(<<1, 1, 1>>)]
        /\ monsters = [m \in MonsterIds |-> Monster(<<2, 1, 2>>)]
        /\ robot_rules = HunterRules
        /\ monster_rules = MonsterRules
        /\ probability = p
        /\ operations = [r \in RobotIds |-> <<>>]
        /\ step = 0
        /\ running = FALSE
        /\ paused = FALSE
        /\ driver = "none"
        /\ pc = "gate"
        /\ idx = 0
        /\ turn = NoTurn
        /\ exc = ""
        /\ announced = FALSE
        /\ threads = NoThreads
        /\ last = Note("init", 0)

\* monster.act(perceptions) returning "wait": the counter is below K, or the
\* draw exceeded p
MonsterCallWaits ==
    /\ pc = "gate"
    /\ step < GateCalls
    /\ \E m \in MonsterIds :
       \E u \in 0..(ProbScale - 1) :
          /\ Gate(monsters[m], u, probability) # "resolve"
          /\ monsters' = [monsters EXCEPT ![m] = MonsterAct(@, u, probability)]
          /\ last' = Called("monster_wait", m, u,
                            monsters[m].steps_since_last_action + 1 >= MONSTER_FREQUENCY)
    /\ step' = step + 1
    /\ UNCHANGED <<env, robots, robot_rules, monster_rules, probability, announced, threads, operations,
                   running, paused, driver, pc, idx, turn, exc>>

\* monster.act(perceptions) passing the gate: the rule lookup raises
\* AttributeError, which ends the run of calls
MonsterCallRaises ==
    /\ pc = "gate"
    /\ step < GateCalls
    /\ \E m \in MonsterIds :
       \E u \in 0..(ProbScale - 1) :
          /\ Gate(monsters[m], u, probability) = "resolve"
          /\ monsters' = [monsters EXCEPT ![m] = MonsterAct(@, u, probability)]
          /\ last' = Called("monster_raised", m, u,
                            monsters[m].steps_since_last_action + 1 >= MONSTER_FREQUENCY)
    /\ step' = step + 1
    /\ pc' = "gate_raised"
    /\ exc' = "AttributeError"
    /\ UNCHANGED <<env, robots, robot_rules, monster_rules, probability, announced, threads, operations,
                   running, paused, driver, idx, turn>>

GateNext ==
    \/ MonsterCallWaits
    \/ MonsterCallRaises

SpecGate == GateInit /\ [][GateNext]_vars

\* ------------------------------------------------ robot phase on its own
\* the actions a rule row can carry: the documented kinds, a kind no branch
\* knows (which is also how a payload json.loads rejects behaves: every
\* parser of the payload catches the error and changes nothing) and a move
\* with a direction token outside the documented set
TurnActions ==
    {Action("move_random", <<"x+90", "z+90">>),
     Action("move_random", <<"x-90", "y+90">>),
     Action("move_random", <<"y-90">>),
     Action("move", <<"x+90">>),
     Action("destroy", <<>>),
     Action("idle", <<>>),
     Action("jump", <<>>),
     Action("move", <<"w+90">>)}

\* a table that answers the perceptions of a robot in the open, on a
\* monster, after a block and facing a robot with the same action
TurnTable(accion) ==
    <<Row(1, 0, 0, 0, 0, 0, 0, 0, accion),
      Row(0, 0, 0, 0, 0, 0, 0, 0, accion),
      Row(0, 0, 0, -1, 0, 0, 0, 0, accion),
      Row(0, 0, 0, 0, 0, 2, 0, 0, accion)>>

\* the robot phase of a step about to start, the first robot heading any of
\* the six ways
TurnInit ==
    \E o \in Orientations :
    \E accion \in TurnActions :
    \E rstart \in [RobotIds -> RobotStarts \cap get_internal_free_positions(_generate_world(InternalEmpty))] :
    \E mstart \in [MonsterIds -> MonsterStarts \cap get_internal_free_positions(_generate_world(InternalEmpty))] :
        /\ world = _generate_world(InternalEmpty)
        /\ robot_positions = rstart
        /\ monster_positions = mstart
        /\ robots = [r \in RobotIds |->
                        IF r = 1 THEN [Robot(rstart[r]) EXCEPT !.orientation = o]
                        ELSE Robot(rstart[r])]
        /\ monsters = [m \in MonsterIds |-> Monster(mstart[m])]
        /\ robot_rules = TurnTable(accion)
        /\ monster_rules = MonsterRules
        /\ probability = MONSTER_PROBABILITY
        /\ operations = [r \in RobotIds |-> <<>>]
        /\ step = 1
        /\ running = FALSE
        /\ paused = FALSE
        /\ driver = "single"
        /\ pc = "perceive"
        /\ idx = 1
        /\ turn = NoTurn
        /\ exc = ""
        /\ announced = FALSE
        /\ threads = NoThreads
        /\ last = Note("init", 0)

\* the action strings handed to Monster._execute_action: the three forms it
\* knows, a form it does not know and names outside direction_map
MonsterCommands ==
    {Surface("wait", <<>>),
     Surface("Mover hacia", <<"Front">>),
     Surface("Mover hacia", <<"Down">>),
     Surface("Mover hacia", <<"Sideways">>),
     Surface("Mover aleatorio entre", <<"Top", "Left">>),
     Surface("Mover aleatorio entre", <<"Right", "Upwards">>),
     Surface("Mover aleatorio entre", <<>>),
     Surface("move_front", <<>>)}

\* monsters about to be handed action strings
ExecuteInit ==
    \E mstart \in [MonsterIds -> MonsterStarts \cap get_internal_free_positions(_generate_world(InternalEmpty))] :
        /\ world = _generate_world(InternalEmpty)
        /\ robot_positions = [r \in RobotIds |-> <<1, 1, 1>>]
        /\ monster_positions = mstart
        /\ robots = [r \in RobotIds |-> Robot(<<1, 1, 1>>)]
        /\ monsters = [m \in MonsterIds |-> Monster(mstart[m])]
        /\ robot_rules = HunterRules
        /\ monster_rules = MonsterRules
        /\ probability = MONSTER_PROBABILITY
        /\ operations = [r \in RobotIds |-> <<>>]
        /\ step = 0
        /\ running = FALSE
        /\ paused = FALSE
        /\ driver = "none"
        /\ pc = "monster_execute"
        /\ idx = 0
        /\ turn = NoTurn
        /\ exc = ""
        /\ announced = FALSE
        /\ threads = NoThreads
        /\ last = Note("init", 0)

\* perceptions = monster.perceive(); monster._execute_action(action)
MonsterExecutes ==
    /\ pc = "monster_execute"
    /\ step < GateCalls
    /\ \E m \in MonsterIds :
       \E action \in MonsterCommands :
       \E chosen \in BracketNames(action.inside) :
          LET e == Monster_execute_action(monsters[m], m, monster_positions,
                                          world, action, chosen)
          IN  /\ monsters' = [monsters EXCEPT ![m] = e.mo]
              /\ monster_positions' = e.mpos
              /\ turn' = [NoTurn EXCEPT !.perceptions = Monster_perceive(monsters[m], world)]
              /\ last' = Did("monster_execute", m, action, monsters[m].position, NoPos)
    /\ step' = step + 1
    /\ UNCHANGED <<world, robot_positions, robots, robot_rules, monster_rules,
                   probability, announced, threads, operations, running, paused, driver, pc, idx,
                   exc>>

TurnNext ==
    \/ RobotPerceive
    \/ RobotAct
    \/ RobotExecute
    \/ RobotReperceive
    \/ MonsterExecutes

SpecTurn == (TurnInit \/ ExecuteInit) /\ [][TurnNext]_vars

\* --------------------------------------------- dashboard threads on their own
\* update_simulation and the threads it starts. This specification follows
\* where each thread is and what the threads share through self.running,
\* self.paused and self.step; the turns a thread at "body" executes are the
\* actions of Next. Callbacks are served one at a time by thread 0.
\* the placement is one draw of get_random_internal_free_position per
\* agent; no thread's control flow reads a position
ThreadsRobotStarts == [r \in RobotIds |-> <<1, 1, 1>>]
ThreadsMonsterStarts == [m \in MonsterIds |-> <<2, 1, 2>>]

ThreadsInit ==
    InitWorld(InternalEmpty, ThreadsRobotStarts, ThreadsMonsterStarts, ForwardRules,
              MONSTER_PROBABILITY)

ThreadsFrame ==
    UNCHANGED <<env, robots, monsters, robot_rules, monster_rules, probability, announced,
                operations, driver, pc, idx, turn>>

CallbackIdle == threads[0].at = "none"

Moved(t, at, local) == [threads EXCEPT ![t] = Thread(at, local)]

FreeLoopThreads == {t \in LoopThreads : threads[t].at = "none"}

\* threading.Thread(target=self.simulation_loop).start()
StartThread ==
    /\ FreeLoopThreads # {}
    /\ LET t == CHOOSE f \in FreeLoopThreads : \A g \in FreeLoopThreads : f <= g
       IN  threads' = Moved(t, "while", 0)

\* button_id == 'start-btn' and not self.running
StartButton ==
    /\ CallbackIdle
    /\ ~running
    /\ running' = TRUE
    /\ paused' = FALSE
    /\ StartThread
    /\ last' = Note("start", 0)
    /\ ThreadsFrame
    /\ UNCHANGED <<step, exc>>

\* button_id == 'pause-btn', self.running and not self.paused
PauseButton ==
    /\ CallbackIdle
    /\ running /\ ~paused
    /\ paused' = TRUE
    /\ running' = FALSE
    /\ last' = Note("pause", 0)
    /\ ThreadsFrame
    /\ UNCHANGED <<step, exc, threads>>

\* button_id == 'pause-btn', elif self.paused
ResumeButton ==
    /\ CallbackIdle
    /\ ~(running /\ ~paused) /\ paused
    /\ paused' = FALSE
    /\ running' = TRUE
    /\ StartThread
    /\ last' = Note("resume", 0)
    /\ ThreadsFrame
    /\ UNCHANGED <<step, exc>>

\* button_id == 'stop-btn'
StopButton ==
    /\ CallbackIdle
    /\ running' = FALSE
    /\ paused' = FALSE
    /\ step' = 0
    /\ last' = Note("stop", 0)
    /\ ThreadsFrame
    /\ UNCHANGED <<exc, threads>>

\* button_id == 'reset-btn': reset_simulation starts by finalising the logs
ResetButton ==
    /\ CallbackIdle
    /\ threads' = Moved(0, "reset", 0)
    /\ last' = Note("reset", 0)
    /\ ThreadsFrame
    /\ UNCHANGED <<control, exc>>

\* reset_simulation: self.running = False; self.step = 0
ResetStops ==
    /\ threads[0].at = "reset"
    /\ running' = FALSE
    /\ step' = 0
    /\ threads' = Moved(0, "rebuild", 0)
    /\ last' = Note("reset", 0)
    /\ ThreadsFrame
    /\ UNCHANGED <<paused, exc>>

\* reset_simulation: a new Environment, new robots and monsters, a new logger
ResetRebuilds ==
    /\ threads[0].at = "rebuild"
    /\ world' = _generate_world(InternalEmpty)
    /\ robot_positions' = ThreadsRobotStarts
    /\ monster_positions' = ThreadsMonsterStarts
    /\ robots' = [r \in RobotIds |-> Robot(ThreadsRobotStarts[r])]
    /\ monsters' = [m \in MonsterIds |-> Monster(ThreadsMonsterStarts[m])]
    /\ operations' = [r \in RobotIds |-> <<>>]
    /\ threads' = Moved(0, "none", 0)
    /\ last' = Note("rebuild", 0)
    /\ UNCHANGED <<robot_rules, monster_rules, probability, announced, driver, pc, idx, turn,
                   control, exc>>

\* button_id == 'step-btn' and self.paused: execute_single_step up to its
\* two early returns
StepClick ==
    /\ CallbackIdle
    /\ paused
    /\ threads' = IF step >= SIMULATION_STEPS \/ AliveMonsters = {}
                  THEN threads
                  ELSE Moved(0, "increment", 0)
    /\ last' = Note("step", 0)
    /\ ThreadsFrame
    /\ UNCHANGED <<control, exc>>

\* the dcc.Interval tick: update_simulation only redraws the figure
TimerTick ==
    /\ CallbackIdle
    /\ last' = Note("tick", 0)
    /\ ThreadsFrame
    /\ UNCHANGED <<control, exc, threads>>

\* simulation_loop: the while test, the victory test, and after the loop the
\* test of the step cap
LoopTest(t) ==
    /\ threads[t].at = "while"
    /\ IF running /\ step < SIMULATION_STEPS
       THEN IF AliveMonsters = {}
            THEN /\ running' = FALSE
                 /\ threads' = Moved(t, "none", 0)
            ELSE /\ threads' = Moved(t, "increment", 0)
                 /\ UNCHANGED running
       ELSE /\ running' = (running /\ step < SIMULATION_STEPS)
            /\ threads' = Moved(t, "none", 0)
    /\ last' = Note("while", t)
    /\ ThreadsFrame
    /\ UNCHANGED <<step, paused, exc>>

\* self.step += 1, the read: the interpreter may switch threads before the
\* write
ReadStep(t) ==
    /\ threads[t].at = "increment"
    /\ threads' = Moved(t, "write", step)
    /\ last' = Note("read", t)
    /\ ThreadsFrame
    /\ UNCHANGED <<control, exc>>

\* the counter is followed up to this value: a write that lands after a
\* stop or a reset can carry it past any cap
StepCeiling == SIMULATION_STEPS + MaxThreads

\* self.step += 1, the write
WriteStep(t) ==
    /\ threads[t].at = "write"
    /\ threads[t].local < StepCeiling
    /\ step' = threads[t].local + 1
    /\ threads' = Moved(t, "body", 0)
    /\ last' = Note("write", t)
    /\ ThreadsFrame
    /\ UNCHANGED <<running, paused, exc>>

\* simulation_loop: the robots' turns, then _handle_robot_collisions, whose
\* AttributeError ends the thread with self.running as it was
LoopBody(t) ==
    /\ threads[t].at = "body"
    /\ threads' = Moved(t, "none", 0)
    /\ exc' = "AttributeError"
    /\ last' = Note("body", t)
    /\ ThreadsFrame
    /\ UNCHANGED control

\* execute_single_step: the robots' turns, the monsters' turns and the
\* end-of-step check; the callback returns
SingleBody ==
    /\ threads[0].at = "body"
    /\ threads' = Moved(0, "none", 0)
    /\ exc' = ""
    /\ last' = Note("body", 0)
    /\ ThreadsFrame
    /\ UNCHANGED control

ThreadsNext ==
    \/ StartButton
    \/ PauseButton
    \/ ResumeButton
    \/ StopButton
    \/ ResetButton
    \/ ResetStops
    \/ ResetRebuilds
    \/ StepClick
    \/ TimerTick
    \/ \E t \in LoopThreads : LoopTest(t)
    \/ \E t \in ThreadIds : ReadStep(t)
    \/ \E t \in ThreadIds : WriteStep(t)
    \/ \E t \in LoopThreads : LoopBody(t)
    \/ SingleBody

SpecThreads == ThreadsInit /\ [][ThreadsNext]_vars

\* ------------------------------------------------ robot memory on its own
\* the act() calls made on one robot, as main.run_simulation makes them:
\* decided, logged and remembered, never executed
MemoryCalls == 5

Perceived(energometro, vacuoscopio, roboscanner) ==
    [Energometro |-> energometro, Lado1_Top |-> 0, Lado2_Left |-> 0,
     Vacuoscopio_Front |-> vacuoscopio, Lado0_Front |-> 0,
     Roboscanner_Front |-> roboscanner, Lado3_Right |-> 0, Lado4_Down |-> 0]

\* the perceptions handed to act(): all clear, a robot ahead, a blocked
\* advance remembered, a monster on the cell
MemoryPerceptions ==
    {Perceived(0, 0, 0), Perceived(0, 0, 2), Perceived(0, -1, 0), Perceived(1, 0, 0)}

MemoryInit ==
    \E rules \in RuleTables :
        /\ world = _generate_world(InternalEmpty)
        /\ robot_positions = [r \in RobotIds |-> <<1, 1, 1>>]
        /\ monster_positions = [m \in MonsterIds |-> <<2, 1, 2>>]
        /\ robots = [r \in RobotIds |-> Robot(<<1, 1, 1>>)]
        /\ monsters = [m \in MonsterIds |-> Monster(<<2, 1, 2>>)]
        /\ robot_rules = rules
        /\ monster_rules = MonsterRules
        /\ probability = MONSTER_PROBABILITY
        /\ operations = [r \in RobotIds |-> <<>>]
        /\ step = 0
        /\ running = FALSE
        /\ paused = FALSE
        /\ driver = "none"
        /\ pc = "memory_act"
        /\ idx = 1
        /\ turn = NoTurn
        /\ exc = ""
        /\ announced = FALSE
        /\ threads = NoThreads
        /\ last = Note("init", 0)

\* robot.act(perceptions)
MemoryAct ==
    /\ pc = "memory_act"
    /\ Len(operations[idx]) < MemoryCalls
    /\ \E perceptions \in MemoryPerceptions :
         LET decision == Decide(robots[idx].memory, robot_rules, perceptions)
         IN  IF CalculateNewStateRaises(decision.action)
             THEN /\ pc' = "raised"
                  /\ exc' = "UnboundLocalError"
                  /\ last' = Note("act_raised", idx)
                  /\ UNCHANGED <<robots, operations, turn>>
             ELSE \E executed \in ExecutedDirections(decision.action, robots[idx].orientation) :
                    LET specific == _convert_to_specific_action(decision.action, executed)
                    IN  /\ operations' = [operations EXCEPT ![idx] =
                               store_operation(@, OperationData(robots[idx].position,
                                                                robots[idx].orientation,
                                                                perceptions,
                                                                decision, specific))]
                        /\ robots' = [robots EXCEPT ![idx] = Acted(@, perceptions, specific)]
                        /\ turn' = [perceptions |-> perceptions,
                                    rule_num |-> decision.rule_num,
                                    action |-> specific]
                        /\ last' = Did("act", idx, specific, robots[idx].position, NoPos)
                        /\ UNCHANGED <<pc, exc>>
    /\ UNCHANGED <<env, monsters, robot_rules, monster_rules, probability, announced, threads,
                   control, driver, idx>>

SpecMemory == MemoryInit /\ [][MemoryAct]_vars

\* ================================================================= claims
IsForward(action) ==
    /\ action.tipo = "move"
    /\ action.directions # <<>>
    /\ action.directions[1] \in {"front", "z+90"}

SameCell(r1, r2) ==
    /\ robots[r1].alive /\ robots[r2].alive
    /\ robots[r1].position = robots[r2].position

\* C1: in every reachable state every live robot and every live monster
\* stands on a free cell
C1_LiveAgentsOnFreeCells ==
    /\ \A r \in RobotIds : robots[r].alive => is_valid_position(world, robots[r].position)
    /\ \A m \in MonsterIds : monsters[m].alive => is_valid_position(world, monsters[m].position)

\* C2: immediately after the robot collision sweep no two live robots have
\* equal positions
C2_NoSharedCellAfterSweep ==
    last.op = "robot_sweep" =>
        \A r1, r2 \in RobotIds : r1 # r2 => ~SameCell(r1, r2)

\* C3: when a monster dies, a robot executing destroy on the monster's cell
\* killed it; that robot is dead, unregistered and has one more
\* monsters_destroyed, the monster is dead and unregistered and its cell is
\* empty; dead agents stay as they are and an empty cell stays empty, so all
\* of this holds at the end of the step and in every later state
C3_DestroyIsMutualAndPermanent ==
    [][/\ \A m \in MonsterIds :
            (monsters[m].alive /\ ~monsters'[m].alive) =>
                /\ pc = "execute"
                /\ turn.action.tipo = "destroy"
                /\ robots[idx].position = monsters[m].position
                /\ ~robots'[idx].alive
                /\ robot_positions'[idx] = NoPos
                /\ robots'[idx].monsters_destroyed = robots[idx].monsters_destroyed + 1
                /\ monster_positions'[m] = NoPos
                /\ world'[monsters[m].position] = -1
       /\ \A r \in RobotIds :
            ~robots[r].alive =>
                /\ ~robots'[r].alive
                /\ robot_positions'[r] = NoPos
                /\ robots'[r].monsters_destroyed = robots[r].monsters_destroyed
       /\ \A m \in MonsterIds :
            ~monsters[m].alive =>
                /\ ~monsters'[m].alive
                /\ monster_positions'[m] = NoPos
                /\ monsters'[m].position = monsters[m].position
       /\ world' # world => \A c \in Cells : world[c] = -1 => world'[c] = -1]_vars

\* C3 witness: a step has ended after a robot killed a monster
C3_MonsterDestroyed ==
    /\ pc = "idle"
    /\ \E r \in RobotIds, m \in MonsterIds :
          /\ ~robots[r].alive
          /\ robots[r].monsters_destroyed = 1
          /\ robot_positions[r] = NoPos
          /\ ~monsters[m].alive
          /\ monsters[m].position = robots[r].position
          /\ world[monsters[m].position] = -1

\* C4: the robot sweep leaves, of the live robots sharing a cell, the one
\* with the smallest id alive in place, the others dead and unregistered,
\* and adds one to the survivor's robots_collided per robot eliminated
C4_SmallerIdSurvives ==
    [][pc = "robot_sweep" =>
          \A r1, r2 \in RobotIds :
              (/\ r1 < r2
               /\ SameCell(r1, r2)
               /\ ~\E r0 \in RobotIds : r0 < r1 /\ SameCell(r0, r1)) =>
                  /\ robots'[r1].alive
                  /\ robots'[r1].position = robots[r1].position
                  /\ ~robots'[r2].alive
                  /\ robot_positions'[r2] = NoPos
                  /\ robots'[r1].robots_collided = robots[r1].robots_collided
                        + Cardinality({r \in RobotIds : r1 < r /\ SameCell(r1, r)})]_vars

\* C5: in a step of the scheduler loop the robot collision sweep is followed
\* by the monster phase
C5_SweepThenMonsters ==
    [][(driver = "loop" /\ pc = "robot_sweep") => pc' = "monsters"]_vars

\* C6: every logged decision whose perception reads Vacuoscopio_Front = -1
\* took the action the rule lookup returns for that perception and is
\* recorded as rule-sourced
C6_BlockedFrontUsesRule ==
    \A r \in RobotIds : \A k \in 1..Len(operations[r]) :
        operations[r][k].sensors.Vacuoscopio_Front = -1 =>
            /\ operations[r][k].action =
                  get_robot_action(robot_rules, operations[r][k].sensors)
            /\ operations[r][k].uses_rule = 1
            /\ operations[r][k].uses_memory = 0

\* C6 witness: a decision on Vacuoscopio_Front = -1 taken while the previous
\* experience, still in memory, matched the perception with another action
C6_MemoryDisagreed ==
    \E r \in RobotIds : \E k \in 2..Len(operations[r]) :
        /\ operations[r][k].sensors.Vacuoscopio_Front = -1
        /\ _perceptions_match(operations[r][k].sensors, operations[r][k - 1].sensors)
        /\ operations[r][k - 1].specific_action # operations[r][k].action
        /\ operations[r][k].uses_rule = 1

\* decisions k and k + 1 of robot r both perceived Vacuoscopio_Front = -1
BothBlocked(r, k) ==
    /\ operations[r][k].sensors.Vacuoscopio_Front = -1
    /\ operations[r][k + 1].sensors.Vacuoscopio_Front = -1

\* C7 as stated: no robot has two consecutive decisions whose perceptions
\* both read Vacuoscopio_Front = -1
C7_NeverTwiceInARow ==
    \A r \in RobotIds : \A k \in 1..(Len(operations[r]) - 1) : ~BothBlocked(r, k)

\* C7 amended: every decision leaves vacuscope_memory at 0, and the flag
\* turns -1 only when the robot executes a forward translation into a cell
\* that is not free
C7_FlagConsumedByDecision ==
    [][\A r \in RobotIds :
          /\ (pc = "act" /\ idx = r /\ pc' = "execute") =>
                robots'[r].vacuscope_memory = 0
          /\ (robots[r].vacuscope_memory # -1 /\ robots'[r].vacuscope_memory = -1) =>
                /\ pc = "execute"
                /\ idx = r
                /\ IsForward(turn.action)
                /\ ~is_valid_position(world,
                       _get_front_position(robots[r].position, robots[r].orientation))]_vars

\* C7 witness: a decision has just consumed the flag that the action chosen
\* by the previous decision, itself taken on -1, had set again
C7_FlagSetAgain ==
    /\ pc = "execute"
    /\ robots[idx].vacuscope_memory = 0
    /\ Len(operations[idx]) >= 2
    /\ BothBlocked(idx, Len(operations[idx]) - 1)

\* C8: a forward translation into a cell that is empty or out of bounds
\* leaves position and registry entry as they were and sets vacuscope_memory
\* to -1; into a free cell it moves the robot one cell along its orientation,
\* updates the registry and leaves vacuscope_memory alone; and a perception
\* taken while vacuscope_memory is -1 reads Vacuoscopio_Front = -1
C8_ForwardTranslation ==
    [][/\ (pc = "execute" /\ IsForward(turn.action)) =>
            LET rb == robots[idx]
                target == Add(rb.position, rb.orientation)
            IN  IF InBounds(target) /\ world[target] = 0
                THEN /\ robots'[idx].position = target
                     /\ robot_positions'[idx] = target
                     /\ robots'[idx].vacuscope_memory = rb.vacuscope_memory
                     /\ robots'[idx].orientation = rb.orientation
                ELSE /\ robots'[idx].position = rb.position
                     /\ robot_positions'[idx] = robot_positions[idx]
                     /\ robots'[idx].vacuscope_memory = -1
                     /\ pc' = "reperceive"
       /\ (pc \in {"perceive", "reperceive"} /\ robots[idx].alive
              /\ robots[idx].vacuscope_memory = -1) =>
            robots'[idx].sensors.Vacuoscopio_Front = -1]_vars

\* C8 witness: a robot that advanced from z = 1 to z = 2 has now executed a
\* forward translation into the empty boundary cell above it
C8_BlockedAfterAdvance ==
    /\ last.op = "execute"
    /\ IsForward(last.action)
    /\ last.from[3] = 2
    /\ world[last.target] = -1
    /\ Len(operations[last.id]) = 2
    /\ IsForward(operations[last.id][1].specific_action)
    /\ robots[last.id].position = last.from
    /\ robots[last.id].vacuscope_memory = -1

\* C9: a forward translation whose target cell holds another live robot
\* does not move the robot and sets vacuscope_memory to -1
C9_BlockedByRobot ==
    [][(/\ pc = "execute"
        /\ IsForward(turn.action)
        /\ is_robot_at(robot_positions,
                       _get_front_position(robots[idx].position, robots[idx].orientation),
                       idx)) =>
          /\ robots'[idx].position = robots[idx].position
          /\ robots'[idx].vacuscope_memory = -1]_vars

\* the rows of the table whose Energometro column is 1
EnergometroRows == {i \in 1..Len(robot_rules) : robot_rules[i].Energometro = 1}

\* C10: a row with Energometro = 1 matches a perception exactly when the
\* perception's Energometro is 1, whatever the other seven sensors read, and
\* a perception with Energometro = 1 resolves to the first such row
C10_EnergometroShortCircuit ==
    /\ pc \in {"lookup", "looked"} =>
          \A i \in EnergometroRows :
              _matches_robot_perception(robot_rules[i], turn.perceptions)
                  <=> turn.perceptions.Energometro = 1
    /\ (pc = "looked" /\ turn.perceptions.Energometro = 1 /\ EnergometroRows # {}) =>
          /\ turn.rule_num = FirstOf(EnergometroRows)
          /\ turn.action = robot_rules[FirstOf(EnergometroRows)].Accion

\* C10 witness: a perception with Energometro = 1 that differs from the
\* second row in four other sensors has resolved to that row
C10_ResolvedDespiteMismatch ==
    /\ pc = "looked"
    /\ robot_rules = GuardedRules
    /\ turn.perceptions.Energometro = 1
    /\ turn.perceptions.Lado1_Top = 1
    /\ turn.perceptions.Lado2_Left = 0
    /\ turn.perceptions.Roboscanner_Front = 0
    /\ turn.perceptions.Lado4_Down = 0
    /\ turn.rule_num = 2
    /\ turn.action = Action("destroy", <<>>)


\* every column in the set is a key of both and carries the same value
EqualOn(columns, rule, perception) ==
    \A column \in columns :
        /\ column \in DOMAIN rule
        /\ column \in DOMAIN perception
        /\ rule[column] = perception[column]

\* the row matches as a robot row does: exactly on the eight sensors when its
\* Energometro is 0, on the Energometro alone when it is 1
RobotRowMatches(rule, perception) ==
    IF rule.Energometro = 0 THEN EqualOn(SensorNames, rule, perception)
    ELSE _matches_robot_perception(rule, perception)

\* C11: a lookup returns the action of the top-most matching row, the robot
\* rule number is that row's position counted from 1, and the action and the
\* number belong to the same row; a robot row with Energometro = 0 and a
\* monster row match iff every sensor column equals the perception exactly
C11_TopMostMatchingRow ==
    /\ pc = "looked" =>
          \A i \in 1..Len(robot_rules) :
              (/\ RobotRowMatches(robot_rules[i], turn.perceptions)
               /\ \A j \in 1..(i - 1) : ~RobotRowMatches(robot_rules[j], turn.perceptions))
              => /\ turn.rule_num = i
                 /\ turn.action = robot_rules[i].Accion
    /\ pc = "monster_looked" =>
          \A i \in 1..Len(monster_rules) :
              (/\ EqualOn(Directions, monster_rules[i], turn.perceptions)
               /\ \A j \in 1..(i - 1) :
                      ~EqualOn(Directions, monster_rules[j], turn.perceptions))
              => turn.action = monster_rules[i].Accion

\* C11 witness: two rows with different actions match the perception and the
\* lookup returned the upper one, which is not the first row of the table
C11_TwoRowsMatch ==
    /\ pc = "looked"
    /\ turn.rule_num > 1
    /\ \E j \in 1..Len(robot_rules) :
          /\ j > turn.rule_num
          /\ RobotRowMatches(robot_rules[j], turn.perceptions)
          /\ robot_rules[j].Accion # turn.action

\* C12: when no row of the table matches the perception, the robot lookup
\* returns a one-cell forward advance with rule index 0 and the monster
\* lookup returns "wait"
C12_DefaultWhenNoRowMatches ==
    /\ (/\ pc = "looked"
        /\ \A i \in 1..Len(robot_rules) :
              ~RobotRowMatches(robot_rules[i], turn.perceptions))
       => /\ turn.action.tipo = "move"
          /\ IsForward(turn.action)
          /\ turn.rule_num = 0
    /\ (/\ pc = "monster_looked"
        /\ \A i \in 1..Len(monster_rules) :
              ~EqualOn(Directions, monster_rules[i], turn.perceptions))
       => turn.action = "wait"

\* the earlier decisions of robot r still in memory at decision k whose eight
\* sensors equal those of decision k
Recalled(r, k) ==
    {j \in 1..(k - 1) :
        /\ j >= k - ROBOT_MEMORY_LIMIT
        /\ EqualOn(SensorNames, operations[r][j].sensors, operations[r][k].sensors)}

\* C13: when a perception with Vacuoscopio_Front = 0 recurs while a matching
\* experience is still in memory, the decision returns the action of the most
\* recent matching experience, is marked memory-sourced, and is logged with
\* Usa_Memoria? = 1, Usa_Regla? = 0 and Regla = 0
C13_MemoryReplay ==
    \A r \in RobotIds :
    \A k \in 1..Len(operations[r]) :
        (/\ operations[r][k].sensors.Vacuoscopio_Front = 0
         /\ Recalled(r, k) # {})
        => /\ operations[r][k].action = operations[r][LastOf(Recalled(r, k))].specific_action
           /\ operations[r][k].memory_action = operations[r][k].action
           /\ operations[r][k].uses_memory = 1
           /\ operations[r][k].uses_rule = 0
           /\ operations[r][k].rule_num = 0

\* C13 witness: a decision replayed an experience that was not the most
\* recent one in memory
C13_ReplayedOlderExperience ==
    \E r \in RobotIds :
    \E k \in 1..Len(operations[r]) :
        /\ operations[r][k].uses_memory = 1
        /\ Recalled(r, k) # {}
        /\ LastOf(Recalled(r, k)) < k - 1

\* C14: after n decisions a robot's memory holds exactly the most recent
\* min(n, M) (perception, action) pairs in decision order, so it never holds
\* more than M
C14_MemoryIsRecentWindow ==
    \A r \in RobotIds :
        LET n == Len(operations[r])
            kept == IF n < ROBOT_MEMORY_LIMIT THEN n ELSE ROBOT_MEMORY_LIMIT
        IN  /\ Len(robots[r].memory) = kept
            /\ Len(robots[r].memory) <= ROBOT_MEMORY_LIMIT
            /\ \A i \in 1..kept :
                  /\ robots[r].memory[i].perceptions = operations[r][n - kept + i].sensors
                  /\ robots[r].memory[i].action = operations[r][n - kept + i].specific_action

\* C14 witness: a robot has decided more than M times and its first decision
\* is no longer the oldest pair in memory
C14_OldestEvicted ==
    \E r \in RobotIds :
        /\ Len(operations[r]) > ROBOT_MEMORY_LIMIT
        /\ Len(robots[r].memory) = ROBOT_MEMORY_LIMIT
        /\ \/ robots[r].memory[1].perceptions # operations[r][1].sensors
           \/ robots[r].memory[1].action # operations[r][1].specific_action

\* C15: a live monster's steps_since_last_action stays within [0, K], and the
\* counter is back at 0 after every act() call in which the incremented
\* counter had reached K, whether the draw let the monster act or wait
C15_CounterWithinPeriod ==
    /\ \A m \in MonsterIds :
          monsters[m].alive =>
              /\ monsters[m].steps_since_last_action >= 0
              /\ monsters[m].steps_since_last_action <= MONSTER_FREQUENCY
    /\ (/\ last.op \in {"monster_wait", "monster_raised"}
        /\ monsters[last.id].steps_since_last_action >= MONSTER_FREQUENCY)
       => monsters[last.id].steps_since_last_action = 0

\* C16 as stated: a monster with p = 0 emits "wait" on every act() call and
\* never changes position, whatever the draw
C16_ZeroProbabilityAlwaysWaits ==
    probability = 0 =>
        /\ last.op # "monster_raised"
        /\ \A m \in MonsterIds : monsters[m].position = <<2, 1, 2>>

\* C16 amended: with p = 0 an act() call returns "wait" exactly when the
\* counter is still below K or the draw is greater than 0, and no call
\* changes the monster's position
C16_ZeroProbabilityWaitsUnlessDrawIsZero ==
    (probability = 0 /\ last.op \in {"monster_wait", "monster_raised"}) =>
        /\ last.op = "monster_wait" <=> (~last.eligible \/ last.draw > 0)
        /\ \A m \in MonsterIds : monsters[m].position = <<2, 1, 2>>

\* C16 witness: a monster with p = 0 whose counter had reached K drew more
\* than 0, waited, and has its counter back at 0
C16_EligibleCallWaited ==
    /\ probability = 0
    /\ last.op = "monster_wait"
    /\ last.eligible
    /\ last.draw > 0
    /\ monsters[last.id].steps_since_last_action = 0

\* C18: a scheduler step never ends with an exception: whenever a step has
\* been left (by the loop or by the Step button), no exception ended it
C18_StepEndsWithoutException ==
    (pc = "idle" /\ last.op # "init") => exc = ""

\* C19: in every robot log record exactly one of Usa_Memoria? and Usa_Regla?
\* is 1 when the action came from memory replay or from a matching rule row,
\* and both are 0 when no row matched and the default action was used
C19_FlagsTellTheSource ==
    \A r \in RobotIds :
    \A k \in 1..Len(operations[r]) :
        LET record == operations[r][k]
            matched == \E i \in 1..Len(robot_rules) :
                          RobotRowMatches(robot_rules[i], record.sensors)
        IN  IF record.uses_memory = 0 /\ ~matched
            THEN record.uses_rule = 0
            ELSE /\ {record.uses_memory, record.uses_rule} = {0, 1}
                 /\ record.uses_memory = 1 => record.memory_action = record.action
                 /\ record.uses_rule = 1 => record.rule_num >= 1

\* the decisions of robot r, before its latest one, whose move changed its
\* position
SuccessfulMoves(r) ==
    {j \in 1..(Len(operations[r]) - 1) :
        /\ operations[r][j].specific_action.tipo \in {"move", "move_random"}
        /\ operations[r][j + 1].position # operations[r][j].position}

\* C20: a `memory` action puts the robot, and its registry entry, on the
\* position it held before its latest successful move, and leaves it where it
\* is when it has never moved
C20_MemoryRestoresPositionBeforeLastMove ==
    (last.op = "execute" /\ last.action.tipo = "memory") =>
        /\ robots[last.id].position =
              IF SuccessfulMoves(last.id) = {} THEN last.from
              ELSE operations[last.id][LastOf(SuccessfulMoves(last.id))].position
        /\ robot_positions[last.id] = robots[last.id].position

\* the tokens of a move_random the claim lets be selected in orientation o:
\* all but the rotation tokens whose table entry is o itself
EffectiveByTable(o, directions) ==
    {d \in SeqRange(directions) :
        d \in RotationTokens => _calculate_relative_rotation(o, d) # o}

\* C21: for move_random the directions that can be selected are exactly the
\* listed tokens minus the rotation tokens whose orientation-table entry
\* leaves the orientation unchanged, the first listed token when none is
\* left; and the direction executed is the one selected and recorded
C21_SelectableDirections ==
    /\ pc = "act" =>
          LET action == Decide(robots[idx].memory, robot_rules, turn.perceptions).action
              o == robots[idx].orientation
          IN  (action.tipo = "move_random" /\ action.directions # <<>>) =>
                  ExecutedDirections(action, o) =
                      IF EffectiveByTable(o, action.directions) = {}
                      THEN {action.directions[1]}
                      ELSE EffectiveByTable(o, action.directions)
    /\ (/\ last.op = "execute"
        /\ operations[last.id][Len(operations[last.id])].action.tipo = "move_random")
       => /\ last.action = operations[last.id][Len(operations[last.id])].specific_action
          /\ last.action.tipo = "move"
          /\ last.action.directions[1] \in
                SeqRange(operations[last.id][Len(operations[last.id])].action.directions)

\* C22: executing destroy when no monster is registered at the robot's
\* position changes nothing: the robot, its registry entry, the world and
\* every monster and monster registry entry stay as they were
C22_DestroyWithoutMonsterIsNoOp ==
    [][(/\ pc = "execute"
        /\ turn.action.tipo = "destroy"
        /\ ~is_monster_at(monster_positions, robots[idx].position))
       => /\ robots' = robots
          /\ robots'[idx].alive
          /\ robot_positions'[idx] = robots[idx].position
          /\ UNCHANGED <<env, monsters>>]_vars

\* C22 witness: a destroy has been executed on a cell without a monster
C22_DestroyedNothing ==
    /\ last.op = "execute"
    /\ last.action.tipo = "destroy"
    /\ ~is_monster_at(monster_positions, last.from)
    /\ robots[last.id].alive
    /\ robots[last.id].monsters_destroyed = 0

\* the kinds and direction tokens Robot._execute_action and
\* _move_in_direction act on
KnownKinds == {"move", "move_random", "destroy", "memory", "idle"}

KnownTokens == RotationTokens \cup {"z+90", "front", "top", "left", "right", "down"}

Malformed(action) ==
    \/ action.tipo \notin KnownKinds
    \/ /\ action.tipo \in {"move", "move_random"}
       /\ action.directions # <<>>
       /\ action.directions[1] \notin KnownTokens

\* a monster action string in none of the three forms, or naming only
\* directions outside direction_map
Unrecognised(action) ==
    \/ action.prefix \notin {"wait", "Mover hacia", "Mover aleatorio entre"}
    \/ /\ action.prefix # "wait"
       /\ BracketNames(action.inside) \cap Directions = {}

\* C23: executing a robot action of unknown kind, with an unparsable payload
\* or with a direction token outside the documented set leaves the robot, the
\* world and the registries unchanged and raises nothing; a monster action
\* string in none of the documented forms, or naming an unknown direction,
\* leaves the monster where it is
C23_MalformedActionChangesNothing ==
    [][/\ (pc = "execute" /\ Malformed(turn.action))
          => /\ robots' = robots
             /\ exc' = exc
             /\ UNCHANGED <<env, monsters>>
       /\ (pc = "monster_execute" /\ Unrecognised(last'.action))
          => /\ monsters' = monsters
             /\ exc' = exc
             /\ UNCHANGED env]_vars

\* C23 witness: a move with the token w+90 has been executed by a robot that
\* had a free cell ahead
C23_UnknownTokenExecuted ==
    /\ last.op = "execute"
    /\ last.action = Action("move", <<"w+90">>)
    /\ is_valid_position(world, last.target)
    /\ robots[last.id].position = last.from

\* a record of a robot that heads +z, senses no monster and no robot, and
\* advances
QuietAdvance(record) ==
    /\ record.orientation = <<0, 0, 1>>
    /\ IsForward(record.specific_action)
    /\ \A s \in SensorNames \ {"Vacuoscopio_Front"} : record.sensors[s] = 0

\* robot r started two cells below the top face (z = N - 3, the claim's
\* (2,2,2) in a world of side 5), has advanced on each of its first three
\* steps, and the cell above its start is still free
AdvancedThrice(r) ==
    /\ Len(operations[r]) >= 3
    /\ \A k \in 1..3 : QuietAdvance(operations[r][k])
    /\ operations[r][1].position[3] = N - 3
    /\ world[Add(operations[r][1].position, <<0, 0, 1>>)] = 0

\* C24 as stated: the robot is one cell up after step 1 and two cells up, at
\* z = N - 1, after step 2, and only the third attempt is blocked
C24_TwoAdvancesThenBlocked ==
    \A r \in RobotIds :
        AdvancedThrice(r) =>
            /\ operations[r][2].position = Add(operations[r][1].position, <<0, 0, 1>>)
            /\ operations[r][3].position = Add(operations[r][1].position, <<0, 0, 2>>)

\* C24 amended: the robot is one cell up, at z = N - 2, after step 1; the
\* second attempt targets the boundary face z = N - 1 and is blocked, so the
\* robot is still there at step 3, whose perception reads Vacuoscopio_Front
\* = -1
C24_OneAdvanceThenBlocked ==
    \A r \in RobotIds :
        AdvancedThrice(r) =>
            /\ operations[r][2].position = Add(operations[r][1].position, <<0, 0, 1>>)
            /\ operations[r][2].sensors.Vacuoscopio_Front = 0
            /\ operations[r][3].position = operations[r][2].position
            /\ operations[r][3].sensors.Vacuoscopio_Front = -1
            /\ world[Add(operations[r][2].position, <<0, 0, 1>>)] = -1

\* C24 witness: a robot has made the three attempts
C24_ThreeAttempts ==
    \E r \in RobotIds :
        /\ AdvancedThrice(r)
        /\ robots[r].position[3] = N - 2

\* ------------------------------------------------------------------ C25
\* C25: the step index never exceeds SIMULATION_STEPS, and once the
\* end-of-step check has found zero live robots or zero live monsters the
\* step index stays where it is: no further step is executed
C25_NoStepAfterExtinction ==
    [][/\ step' <= SIMULATION_STEPS
       /\ announced => step' = step]_vars

\* ------------------------------------------------------------------ C26
\* C26: in every reachable state every cell with a coordinate equal to 0 or
\* N - 1 is empty
C26_ShellIsEmpty ==
    \A c \in Cells : IsBoundary(c) => world[c] = -1

\* a destroy has emptied a cell that construction left free, and a robot has
\* stepped away from its start
C26_WorldChangedSinceConstruction ==
    /\ \E c \in Interior \ InternalEmpty : world[c] = -1
    /\ \E r \in RobotIds : robots[r].alive /\ robots[r].position \notin RobotStarts

\* ------------------------------------------------------------------ C27
\* the buffer `after` keeps every record of `before`, in place
KeepsRecords(before, after) ==
    /\ Len(before) <= Len(after)
    /\ \A k \in 1..Len(before) : after[k] = before[k]

\* C27: each robot's operation buffer is append-only: every act() call on a
\* live robot appends exactly one record, the records are numbered 1, 2, 3, ...
\* in call order, and no stored record is modified or removed afterwards
C27_BufferIsAppendOnly ==
    [][\A r \in DOMAIN operations :
          /\ KeepsRecords(operations[r], operations'[r])
          /\ \A k \in 1..Len(operations'[r]) : operations'[r][k].operation_number = k
          /\ Len(operations'[r]) =
                 Len(operations[r]) + (IF pc = "act" /\ idx = r /\ robots[r].alive THEN 1 ELSE 0)]_vars

\* ------------------------------------------------------------------ C28
\* C28: each live robot runs the perception procedure once per scheduler
\* step, in the step's first perception: no other transition refreshes its
\* sensors or fires the encounter reflex, so after the decision its
\* orientation changes only through the action it executes
C28_PerceivesOncePerStep ==
    [][\A r \in DOMAIN robots :
          ~(pc = "perceive" /\ idx = r) =>
              /\ robots'[r].sensors = robots[r].sensors
              /\ (~(pc = "execute" /\ idx = r) =>
                      robots'[r].orientation = robots[r].orientation)]_vars

\* ------------------------------------------------------------------ C29
\* robot r is about to run the perception procedure
Perceiving(r) == pc \in {"perceive", "reperceive"} /\ idx = r /\ robots[r].alive

\* another live robot stands in r's forward cell
LiveRobotAhead(r) ==
    \E other \in DOMAIN robots \ {r} :
        /\ robots[other].alive
        /\ robots[other].position = _get_front_position(robots[r].position, robots[r].orientation)

\* C29: a perception with another live robot in the forward cell ends with
\* Roboscanner_Front = 2 and the orientation replaced by the table entry for
\* (orientation, y+90); with no other robot there it ends with
\* Roboscanner_Front = 0 and the orientation as it was; perception never
\* changes the position, vacuscope_memory, a world cell or a registry
C29_PerceptionAndEncounterReflex ==
    [][\A r \in DOMAIN robots : Perceiving(r) =>
          /\ IF LiveRobotAhead(r)
             THEN /\ robots'[r].sensors.Roboscanner_Front = 2
                  /\ robots'[r].orientation =
                         _calculate_relative_rotation(robots[r].orientation, "y+90")
             ELSE /\ robots'[r].sensors.Roboscanner_Front = 0
                  /\ robots'[r].orientation = robots[r].orientation
          /\ robots'[r].position = robots[r].position
          /\ robots'[r].vacuscope_memory = robots[r].vacuscope_memory
          /\ UNCHANGED <<env, monsters>>]_vars

\* a perception has just turned a robot away from another one
C29_ReflexFired ==
    /\ last.op \in {"perceive", "reperceive"}
    /\ robots[last.id].alive
    /\ robots[last.id].sensors.Roboscanner_Front = 2

\* ------------------------------------------------------------------ C30
\* C30: in every reachable state each robot's orientation is one of the six
\* unit axis vectors, and it is +z when the robot is constructed
C30_OrientationIsAUnitAxis ==
    \A r \in DOMAIN robots :
        /\ robots[r].orientation \in Orientations
        /\ last.op = "init" => robots[r].orientation = <<0, 0, 1>>

\* a robot that has acted at least twice faces a negative axis
C30_TurnedToNegativeAxis ==
    \E r \in DOMAIN robots :
        /\ Len(operations[r]) >= 2
        /\ robots[r].orientation \in {<<-1, 0, 0>>, <<0, -1, 0>>, <<0, 0, -1>>}

\* ------------------------------------------------------------------ C31
\* the token robot idx is about to execute ("" when its action carries none)
ExecutingToken ==
    IF /\ pc = "execute"
       /\ robots[idx].alive
       /\ turn.action.tipo \in {"move", "move_random"}
       /\ turn.action.directions # <<>>
    THEN turn.action.directions[1]
    ELSE ""

\* C31: executing a rotation token changes only the robot's orientation
\* (position, previous_position, vacuscope_memory, the registries and all
\* cells stay as they were); executing z+90 never changes the orientation
C31_RotationTurnsTranslationKeepsHeading ==
    [][/\ ExecutingToken \in RotationTokens =>
             /\ robots' = [robots EXCEPT ![idx].orientation = robots'[idx].orientation]
             /\ UNCHANGED <<env, monsters>>
       /\ ExecutingToken = "z+90" =>
             robots'[idx].orientation = robots[idx].orientation]_vars

\* a rotation token has just turned a robot, and it stands where it stood
C31_RotationExecuted ==
    /\ last.op = "execute"
    /\ last.action.tipo = "move"
    /\ last.action.directions # <<>>
    /\ last.action.directions[1] \in RotationTokens
    /\ robots[last.id].position = last.from

\* ------------------------------------------------------------------ C32
\* the world-absolute unit vector of a monster direction
Axis(direction) ==
    CASE direction = "Top" -> <<0, 0, 1>>
      [] direction = "Down" -> <<0, 0, -1>>
      [] direction = "Front" -> <<0, 1, 0>>
      [] direction = "Behind" -> <<0, -1, 0>>
      [] direction = "Right" -> <<1, 0, 0>>
      [] direction = "Left" -> <<-1, 0, 0>>

\* the neighbour of p in that direction is an in-bounds free cell
FreeNeighbour(p, direction) ==
    /\ InBounds(Add(p, Axis(direction)))
    /\ world[Add(p, Axis(direction))] = 0

\* C32: a monster's six sensors read 0 exactly when the world-absolute
\* neighbour is an in-bounds free cell and -1 otherwise; move_to(dir) moves
\* the monster into that neighbour and updates its registry entry iff the
\* neighbour is free, otherwise position and registry are unchanged; after
\* move_random_among(dirs) the monster is in its previous cell or in a free
\* neighbour named in dirs
C32_MonsterSensesAndMoves ==
    [][pc = "monster_execute" =>
          LET m == last'.id
              a == last'.action
              p == monsters[m].position
          IN  /\ \A d \in Directions :
                    turn'.perceptions[d] = (IF FreeNeighbour(p, d) THEN 0 ELSE -1)
              /\ (a.prefix = "Mover hacia" /\ Len(a.inside) = 1 /\ a.inside[1] \in Directions) =>
                    IF FreeNeighbour(p, a.inside[1])
                    THEN /\ monsters'[m].position = Add(p, Axis(a.inside[1]))
                         /\ monster_positions'[m] = Add(p, Axis(a.inside[1]))
                    ELSE /\ monsters'[m].position = p
                         /\ monster_positions' = monster_positions
              /\ a.prefix = "Mover aleatorio entre" =>
                    \/ monsters'[m].position = p
                    \/ \E d \in SeqRange(a.inside) \cap Directions :
                          /\ FreeNeighbour(p, d)
                          /\ monsters'[m].position = Add(p, Axis(d))]_vars

\* a monster has just moved into a neighbour drawn from a list, and a sensor
\* of its perception read -1
C32_MonsterMovedAtRandom ==
    /\ last.op = "monster_execute"
    /\ last.action.prefix = "Mover aleatorio entre"
    /\ monsters[last.id].position # last.from
    /\ \E d \in Directions : turn.perceptions[d] = -1

\* ------------------------------------------------------------------ C33
\* C33: a step run through any driver applies the transition of one loop
\* iteration, collision sweeps included, so when a step reaches its
\* termination check no two live robots and no two live monsters share a cell
C33_EveryDriverResolvesSharedCells ==
    pc = "check" =>
        /\ \A r1, r2 \in DOMAIN robots : r1 # r2 => ~SameCell(r1, r2)
        /\ \A m1, m2 \in MonsterIds :
              (m1 # m2 /\ monsters[m1].alive /\ monsters[m2].alive) =>
                  monsters[m1].position # monsters[m2].position

\* ------------------------------------------------------------------ C34
\* a thread that is executing a step or a reset
Stepping(t) == threads[t].at \in {"increment", "write", "body", "reset", "rebuild"}

\* C34: under any sequence of dashboard events at most one thread executes
\* simulation steps at a time: no two simulation_loop threads, and no
\* simulation_loop thread together with a single-step call or a reset
C34_OneThreadStepsAtATime ==
    \A t1, t2 \in ThreadIds : t1 # t2 => ~(Stepping(t1) /\ Stepping(t2))

\* ------------------------------------------------------------------ C35
\* C35: the position registries always agree with the agents: a robot is
\* registered iff it is alive and its registered position is its own, and the
\* same for the monsters
C35_RegistriesAgreeWithAgents ==
    /\ \A r \in DOMAIN robots :
          /\ (robot_positions[r] # NoPos) = robots[r].alive
          /\ robots[r].alive => robot_positions[r] = robots[r].position
    /\ \A m \in MonsterIds :
          /\ (monster_positions[m] # NoPos) = monsters[m].alive
          /\ monsters[m].alive => monster_positions[m] = monsters[m].position

\* a robot has destroyed one of several monsters standing on its cell
C35_DestroyedOneOfSeveral ==
    /\ last.op = "execute"
    /\ last.action.tipo = "destroy"
    /\ ~robots[last.id].alive
    /\ \E m1, m2 \in MonsterIds :
          /\ ~monsters[m1].alive /\ monsters[m2].alive
          /\ monsters[m1].position = robots[last.id].position
          /\ monsters[m2].position = robots[last.id].position

\* ------------------------------------------------------------------ C36
\* the earlier decisions of robot r on perception P that came from the rule
\* book
RuleDecisions(r, k) ==
    {j \in 1..(k - 1) : /\ operations[r][j].sensors = operations[r][k].sensors
                        /\ operations[r][j].uses_rule = 1}

\* decision k of robot r replays the specific action of decision j, which is
\* the rule-book action of the perception, or a move in one direction where
\* the rule book says move_random
Replays(r, k, j) ==
    LET book == get_robot_action(robot_rules, operations[r][k].sensors)
        replayed == operations[r][k].specific_action
    IN  /\ replayed = operations[r][j].specific_action
        /\ IF book.tipo = "move_random"
           THEN replayed.tipo = "move" /\ Len(replayed.directions) = 1
           ELSE replayed = book

\* C36: a memory-sourced decision on P replays the rule-book action of P, and
\* where that action is move_random it replays the one direction drawn the
\* first time P was decided
C36_ReplayRepeatsFirstDraw ==
    \A r \in DOMAIN operations :
    \A k \in 1..Len(operations[r]) :
        operations[r][k].uses_memory = 1 =>
            /\ RuleDecisions(r, k) # {}
            /\ Replays(r, k, FirstOf(RuleDecisions(r, k)))

\* C36, amended: where the rule-book action is move_random the replay repeats
\* the direction drawn at the most recent rule-book decision on P; P is
\* decided from the rule book again, with a new draw, once its experiences
\* have left the bounded memory
C36_ReplayRepeatsLatestRuleDecision ==
    \A r \in DOMAIN operations :
    \A k \in 1..Len(operations[r]) :
        operations[r][k].uses_memory = 1 =>
            /\ RuleDecisions(r, k) # {}
            /\ Replays(r, k, LastOf(RuleDecisions(r, k)))

\* a random move has been replayed from memory
C36_RandomMoveReplayed ==
    \E r \in DOMAIN operations :
    \E k \in 1..Len(operations[r]) :
        /\ operations[r][k].uses_memory = 1
        /\ get_robot_action(robot_rules, operations[r][k].sensors).tipo = "move_random"

\* ------------------------------------------------------------------ C37
\* C37: cell states are monotone: no step turns an empty cell into a free
\* cell, and the world changes only when a robot's destroy finds a monster,
\* and then only in that robot's cell, which becomes empty
C37_OnlyDestroyEmptiesACell ==
    [][world' # world =>
          /\ last'.op = "execute"
          /\ last'.action.tipo = "destroy"
          /\ is_monster_at(monster_positions, last'.from)
          /\ \A c \in Cells :
                world'[c] # world[c] =>
                    /\ c = last'.from
                    /\ world[c] = 0
                    /\ world'[c] = -1]_vars

\* a destroy has emptied the robot's cell and nothing else: the rest of the
\* interior is as the world was generated
C37_OneCellEmptied ==
    /\ last.op = "execute"
    /\ last.action.tipo = "destroy"
    /\ world[last.from] = -1
    /\ \A c \in Interior \ (InternalEmpty \cup {last.from}) : world[c] = 0

\* ------------------------------------------------------------------ C38
RECURSIVE Tally(_, _, _)
\* the sum of a counter over the robots in S
Tally(rs, S, counter) ==
    IF S = {} THEN 0
    ELSE LET r == CHOOSE x \in S : TRUE
         IN  rs[r][counter] + Tally(rs, S \ {r}, counter)

DeadRobots == {r \in DOMAIN robots : ~robots[r].alive}
DeadMonsters == {m \in MonsterIds : ~monsters[m].alive}

\* C38: deaths are accounted for by the counters: monsters_destroyed is 0 or
\* 1 and is 1 only for a dead robot; the dead robots number the sum of
\* monsters_destroyed plus the sum of robots_collided; the dead monsters
\* number the sum of monsters_destroyed plus those a monster collision sweep
\* eliminated (none: the sweep stops at its first statement)
C38_DeathsMatchCounters ==
    /\ \A r \in DOMAIN robots :
          /\ robots[r].monsters_destroyed \in {0, 1}
          /\ robots[r].monsters_destroyed = 1 => ~robots[r].alive
    /\ Cardinality(DeadRobots) =
          Tally(robots, DOMAIN robots, "monsters_destroyed")
              + Tally(robots, DOMAIN robots, "robots_collided")
    /\ Cardinality(DeadMonsters) = Tally(robots, DOMAIN robots, "monsters_destroyed")

\* two robots have died destroying the two monsters
C38_TwoSacrifices ==
    /\ Cardinality(DeadRobots) = 2
    /\ Cardinality(DeadMonsters) = 2

\* ------------------------------------------------------------------ C39
\* C39: a perception taken with heading +z or -z reads its left and right
\* neighbours in the forward cell, so Lado2_Left = Lado3_Right = Lado0_Front
\* (for +z also = Lado1_Top, for -z also = Lado4_Down); with a heading in the
\* x-y plane left, right and front are three distinct cells
C39_VerticalHeadingFoldsTheSides ==
    [][\A r \in DOMAIN robots : Perceiving(r) =>
          LET o == robots[r].orientation
              p == robots[r].position
              s == robots'[r].sensors
              front == _get_front_position(p, o)
              left == _get_left_position(p, o)
              right == _get_right_position(p, o)
          IN  IF o[3] # 0
              THEN /\ left = front /\ right = front
                   /\ s.Lado2_Left = s.Lado0_Front
                   /\ s.Lado3_Right = s.Lado0_Front
                   /\ o[3] = 1 => /\ _get_up_position(p) = front
                                  /\ s.Lado1_Top = s.Lado0_Front
                   /\ o[3] = -1 => /\ _get_down_position(p) = front
                                   /\ s.Lado4_Down = s.Lado0_Front
              ELSE /\ left # right
                   /\ left # front
                   /\ right # front]_vars

\* a robot heading +z has perceived the monster ahead on its left, on its
\* right and above as well
C39_MonsterAheadSeenOnEverySide ==
    /\ last.op = "perceive"
    /\ robots[last.id].orientation = <<0, 0, 1>>
    /\ robots[last.id].sensors.Lado0_Front = 1
    /\ robots[last.id].sensors.Lado2_Left = 1
    /\ robots[last.id].sensors.Lado3_Right = 1
    /\ robots[last.id].sensors.Lado1_Top = 1

====
